---- MODULE Spec2Model ----
(***************************************************************************)
(* Model of IofoldGEPAAdapter (src/src/sandbox/gepa/iofold_adapter.py):    *)
(* evaluate (batch submission, completion polling with a wall-clock        *)
(* deadline, the per-position local scoring loop), make_reflective_dataset *)
(* and the life of the adapter object (construction, with block, close),   *)
(* and of run_gepa_optimization (src/src/sandbox/gepa/gepa_runner.py),     *)
(* which constructs the adapter, runs the optimizer and closes the adapter.*)
(*                                                                         *)
(* Conventions                                                             *)
(*  - a Python dict whose keys may be missing is a record with a field     *)
(*    "fields" holding the set of keys that are present; Has/Get model     *)
(*    `k in d` and d.get(k, default); reading a missing key with d[k] is   *)
(*    a KeyError;                                                          *)
(*  - scores are integers in hundredths (90 stands for 0.9);               *)
(*  - batch positions are 0-based as in the source, sequences are 1-based: *)
(*    position i is batch[i + 1].                                          *)
(***************************************************************************)
EXTENDS Integers, Sequences, FiniteSets, TLC

VARIABLES
    batch,           \* evaluate's argument: sequence of DataInst
    capture_traces,  \* evaluate's argument
    evalBeh,         \* what eval_function does when invoked for position i
    pc,              \* position of the evaluate call
    clock,           \* time.time()
    start_time,      \* _poll_for_completion's local start_time
    requests,        \* HTTP requests issued so far, in order
    response,        \* how the last request ended ("" before the first)
    batch_id,        \* batch id the submission returned
    data,            \* body of the last status response that was parsed
    timedOut,        \* the polling loop was left because the deadline elapsed
    results,         \* list returned by _poll_for_completion
    i,               \* loop index of the scoring loop
    outputs,         \* evaluate's local outputs
    scores,          \* evaluate's local scores
    trajectories,    \* evaluate's local trajectories
    err,             \* exception that escaped evaluate ("" when none)
    invocations,     \* calls of eval_function made so far, with their arguments
    adapter,         \* the IofoldGEPAAdapter object and what was done with it
    candidate,       \* the candidate mapping handed to the adapter's methods
    components_to_update,  \* make_reflective_dataset's argument
    reflective_data, \* what make_reflective_dataset returned
    config,          \* run_gepa_optimization's argument
    GEPA_AVAILABLE,  \* gepa_runner's global: the gepa library was imported
    run              \* the call of run_gepa_optimization: position and outcome

\* what no step of evaluate touches
runner == <<config, GEPA_AVAILABLE, run>>
outer == <<adapter, candidate, components_to_update, reflective_data, runner>>

vars == <<batch, capture_traces, evalBeh, pc, clock, start_time, requests,
          response, batch_id, data, timedOut, results, i, outputs, scores,
          trajectories, err, invocations, adapter, candidate,
          components_to_update, reflective_data, config, GEPA_AVAILABLE,
          run>>

(***************************************************************************)
(* Bounds of the model.                                                    *)
(***************************************************************************)
MaxBatch == 3        \* longest batch handed to evaluate
MaxResults == 3      \* longest result list in a status response
PollTimeout == 2     \* poll_timeout_seconds of the adapter under test
PollInterval == 1    \* poll_interval_seconds of the adapter under test
MaxLatency == 1      \* longest time one HTTP request takes
MaxCalls == 2        \* most calls of evaluate on one adapter
MaxCloses == 2       \* most explicit calls of close() on one adapter
MaxComponents == 2   \* most components asked of make_reflective_dataset
MaxTrace == 3        \* most steps in a trace handed to _extract_agent_response
MaxItems == 2        \* most items in the trainset and in the valset of a config
MaxLiveBatch == 1    \* longest batch of the calls checked for termination

(***************************************************************************)
(* Python values.                                                          *)
(***************************************************************************)
Has(d, k) == k \in d.fields
Get(d, k, default) == IF Has(d, k) THEN d[k] ELSE default

PyNone == "None"
NoneList == [isNone |-> TRUE, items |-> <<>>]
PyList(s) == [isNone |-> FALSE, items |-> s]

Digits == <<"0", "1", "2", "3", "4", "5", "6", "7", "8", "9">>
TaskId(k) == "task_" \o Digits[k + 1]

DataInst(k) ==
    [task |-> [user_message |-> "msg_" \o Digits[k + 1], context |-> "ctx"],
     task_metadata |-> [expected |-> "exp_" \o Digits[k + 1]]]

Batches == { [k \in 1..n |-> DataInst(k - 1)] : n \in 0..MaxBatch }

(***************************************************************************)
(* Remote results.  The platform is external: entries may repeat a task    *)
(* identifier, carry an unknown one, or lack fields.                       *)
(***************************************************************************)
Entry(fs, id, st, er, tr, tm) ==
    [fields |-> fs, task_id |-> id, status |-> st, error |-> er,
     trace |-> tr, execution_time_ms |-> tm]

E_done0 == Entry({"task_id", "status", "trace", "execution_time_ms"},
                 "task_0", "completed", "", <<"s1">>, "12")
E_running0 == Entry({"task_id", "status"}, "task_0", "running", "", <<>>, "")
E_done1 == Entry({"task_id", "status"}, "task_1", "completed", "", <<>>, "")
E_failed2 == Entry({"task_id", "status", "error"},
                   "task_2", "failed", "agent crashed", <<>>, "")
E_noId == Entry({"status", "trace"}, "", "completed", "", <<"s2">>, "")
E_noStatus1 == Entry({"task_id", "trace"}, "task_1", "", "", <<"s1">>, "")

Entries == {E_done0, E_running0, E_done1, E_failed2, E_noId, E_noStatus1}

Injective(s) == \A a, b \in DOMAIN s : a # b => s[a] # s[b]

ListsOver(S) ==
    UNION { { s \in [1..n -> S] : Injective(s) } : n \in 0..MaxResults }

ResultLists == ListsOver(Entries)

(***************************************************************************)
(* Traces.  A trace is a list of execution steps; a step is written by its *)
(* name and StepOf gives the dict the name stands for.  A message's        *)
(* content is a string, None, or a list of content blocks.                 *)
(***************************************************************************)
Str(t) == [isList |-> FALSE, isNone |-> FALSE, str |-> t, blocks |-> <<>>]
NoneContent == [isList |-> FALSE, isNone |-> TRUE, str |-> "", blocks |-> <<>>]
Blocks(bs) == [isList |-> TRUE, isNone |-> FALSE, str |-> "", blocks |-> bs]

\* a content block: a dict with some of the keys type and text, or (isDict
\* false) a bare string
Block(d, fs, ty, tx) == [isDict |-> d, fields |-> fs, type |-> ty, text |-> tx]
TextBlock(tx) == Block(TRUE, {"type", "text"}, "text", tx)

Msg(fs, ro, co) == [fields |-> fs, role |-> ro, content |-> co]
Said(ro, co) == Msg({"role", "content"}, ro, co)

StepDict(fs, ms) == [fields |-> fs, messages_added |-> ms]
Added(ms) == StepDict({"messages_added"}, ms)

StepNames == {"s1", "s2", "s3", "s4", "s5", "s6"}

StepOf(name) ==
    CASE name = "s1" ->
           Added(<<Said("user", Str("hi")), Said("assistant", Str("answer 1"))>>)
      [] name = "s2" ->
           Added(<<Said("assistant", Str("draft")),
                   Said("assistant", Str("final")),
                   Said("user", Str("thanks"))>>)
      [] name = "s3" ->
           Added(<<Said("assistant",
                        Blocks(<<TextBlock("a"),
                                 Block(TRUE, {"type", "text"}, "tool_use", "x"),
                                 Block(FALSE, {}, "", "raw"),
                                 Block(TRUE, {"type"}, "text", ""),
                                 Block(TRUE, {"text"}, "", "y"),
                                 TextBlock("b")>>))>>)
      [] name = "s4" ->
           Added(<<Said("user", Str("again")),
                   Msg({"content"}, "", Str("no role"))>>)
      [] name = "s5" -> StepDict({"tool_call"}, <<>>)
      [] name = "s6" ->
           Added(<<Said("assistant", NoneContent),
                   Said("tool", Str("result"))>>)
      [] OTHER -> Added(<<Msg({"role"}, "assistant", Str(""))>>)

\* str(content), line 336: a string is itself, None is the text "None"
PyStr(c) == IF c.isNone THEN "None" ELSE c.str

\* _extract_agent_response, lines 328-335: the text of the blocks that are
\* dicts of type "text", joined in order
RECURSIVE JoinText(_, _)
JoinText(bs, k) ==
    IF k > Len(bs) THEN ""
    ELSE (IF bs[k].isDict /\ Get(bs[k], "type", PyNone) = "text"
          THEN Get(bs[k], "text", "")
          ELSE "") \o JoinText(bs, k + 1)

\* _extract_agent_response, lines 324-336: messages k, k - 1, ..., 1 of one
\* step, up to the first whose role is assistant
RECURSIVE LastAssistantIn(_, _)
LastAssistantIn(ms, k) ==
    IF k = 0 THEN [found |-> FALSE, text |-> ""]
    ELSE IF Get(ms[k], "role", PyNone) = "assistant"
    THEN LET content == Get(ms[k], "content", Str(""))
         IN  [found |-> TRUE,
              text |-> IF content.isList THEN JoinText(content.blocks, 1)
                       ELSE PyStr(content)]
    ELSE LastAssistantIn(ms, k - 1)

\* _extract_agent_response, lines 322-337: steps k, k - 1, ..., 1
RECURSIVE ExtractFrom(_, _)
ExtractFrom(trace, k) ==
    IF k = 0 THEN ""
    ELSE LET messages == Get(StepOf(trace[k]), "messages_added", <<>>)
             m == LastAssistantIn(messages, Len(messages))
         IN  IF m.found THEN m.text ELSE ExtractFrom(trace, k - 1)

\* an extraction that stops at the first step, front to back, in which the
\* assistant spoke
RECURSIVE ExtractForward(_, _)
ExtractForward(trace, k) ==
    IF k > Len(trace) THEN ""
    ELSE LET messages == Get(StepOf(trace[k]), "messages_added", <<>>)
             m == LastAssistantIn(messages, Len(messages))
         IN  IF m.found THEN m.text ELSE ExtractForward(trace, k + 1)

ExtractAgentResponse_firstStep(trace) == ExtractForward(trace, 1)

\* _extract_agent_response, lines 310-337
ExtractAgentResponse(trace) == ExtractFrom(trace, Len(trace))

\* _run_eval, lines 290-303: one call of eval_function with its arguments
Invocation(inst, trace) ==
    [task |-> inst.task,
     task_metadata |-> inst.task_metadata,
     trace |-> [steps |-> trace,
                agent_response |-> ExtractAgentResponse(trace)],
     ctx |-> PyNone]

Traces == UNION { [1..n -> StepNames] : n \in 0..MaxTrace }

(***************************************************************************)
(* The user-supplied entry point, by what one invocation does.             *)
(***************************************************************************)
Beh(k, v, t) == [kind |-> k, v |-> v, text |-> t]
Behaviours == {Beh("float", 90, ""), Beh("pair", 150, "too high"),
               Beh("raise", 0, "boom")}

\* a _run_eval that drops the feedback text of a pair
RunEval_pairAsFloat(b) ==
    IF b.kind = "raise" THEN [raised |-> TRUE, score |-> 0, feedback |-> b.text]
    ELSE [raised |-> FALSE, score |-> b.v, feedback |-> ""]

\* a _run_eval that subscripts every return value as a pair
RunEval_bareFloatRejected(b) ==
    IF b.kind = "raise" THEN [raised |-> TRUE, score |-> 0, feedback |-> b.text]
    ELSE IF b.kind = "pair" THEN [raised |-> FALSE, score |-> b.v, feedback |-> b.text]
    ELSE [raised |-> TRUE, score |-> 0,
          feedback |-> "'float' object is not subscriptable"]

\* _run_eval, lines 298-308: both accepted return shapes become one tuple
RunEval(b) ==
    IF b.kind = "raise" THEN [raised |-> TRUE, score |-> 0, feedback |-> b.text]
    ELSE IF b.kind = "pair" THEN [raised |-> FALSE, score |-> b.v, feedback |-> b.text]
    ELSE [raised |-> FALSE, score |-> b.v, feedback |-> ""]

\* evaluate, lines 201-204: the try/except around _run_eval
Scored(b) ==
    IF RunEval(b).raised
    THEN [score |-> 0, feedback |-> "Eval error: " \o RunEval(b).feedback]
    ELSE [score |-> RunEval(b).score, feedback |-> RunEval(b).feedback]

\* what eval_function may hand back to _run_eval: a bare number, a pair of
\* a number and a text (str(None) is "None"), or an exception
ScoreValues == {0, 75, 90, 100, 150}
Texts == {"", "good", "too high", PyNone}

ReturnValues ==
    { Beh("float", v, "") : v \in ScoreValues }
    \cup { Beh("pair", v, t) : v \in ScoreValues, t \in Texts }
    \cup { Beh("raise", 0, "boom") }

(***************************************************************************)
(* evaluate, line 182: next((r for r in results if r["task_id"] == id))    *)
(***************************************************************************)
NoEntry == Entry({}, "", "", "", <<>>, "")

\* a lookup that falls back on the first entry when no identifier matches
Lookup_orFirst(rs, id) ==
    IF rs = <<>> THEN [kind |-> "none", r |-> NoEntry]
    ELSE IF \E a \in DOMAIN rs : Has(rs[a], "task_id") /\ rs[a].task_id = id
         THEN [kind |-> "found",
               r |-> rs[CHOOSE a \in DOMAIN rs :
                            /\ Has(rs[a], "task_id") /\ rs[a].task_id = id
                            /\ \A c \in 1..(a - 1) : rs[c].task_id # id]]
    ELSE [kind |-> "found", r |-> rs[1]]

\* a lookup in which the last entry carrying the identifier wins
Lookup_lastMatch(rs, id) ==
    IF \E a \in DOMAIN rs : ~Has(rs[a], "task_id")
    THEN [kind |-> "KeyError", r |-> NoEntry]
    ELSE IF \A a \in DOMAIN rs : rs[a].task_id # id
    THEN [kind |-> "none", r |-> NoEntry]
    ELSE [kind |-> "found",
          r |-> rs[CHOOSE a \in DOMAIN rs :
                       /\ rs[a].task_id = id
                       /\ \A c \in (a + 1)..Len(rs) : rs[c].task_id # id]]

RECURSIVE Lookup(_, _)
Lookup(rs, id) ==
    IF rs = <<>> THEN [kind |-> "none", r |-> NoEntry]
    ELSE IF ~Has(Head(rs), "task_id") THEN [kind |-> "KeyError", r |-> NoEntry]
    ELSE IF Head(rs).task_id = id THEN [kind |-> "found", r |-> Head(rs)]
    ELSE Lookup(Tail(rs), id)

\* evaluate, line 186: the message of a position that is not completed
ErrorMsg_alwaysNotFound(look) ==
    IF look.kind = "none" THEN "Task not found"
    ELSE Get(look.r, "error", "Task not found")

ErrorMsg(look) ==
    IF look.kind = "none" THEN "Task not found"
    ELSE Get(look.r, "error", "Task not completed")

\* a loop body whose trajectory records lose the metadata of the task
Emit_metadataDropped(inst, look, b) ==
    LET r == look.r
    IN  IF look.kind = "KeyError" THEN [kind |-> "KeyError", key |-> "task_id"]
        ELSE IF look.kind = "found" /\ ~Has(r, "status")
        THEN [kind |-> "KeyError", key |-> "status"]
        ELSE IF look.kind = "none" \/ r.status # "completed" THEN
            [kind |-> "error",
             output |-> [error |-> ErrorMsg(look)],
             score |-> 0,
             traj |-> [task |-> inst.task, task_metadata |-> <<>>,
                       error |-> ErrorMsg(look),
                       status |-> IF look.kind = "none" THEN "not_found"
                                  ELSE Get(r, "status", PyNone)],
             invoked |-> <<>>]
        ELSE
            [kind |-> "scored",
             output |-> [trace |-> Get(r, "trace", <<>>),
                         feedback |-> Scored(b).feedback],
             score |-> Scored(b).score,
             traj |-> [task |-> inst.task, task_metadata |-> <<>>,
                       trace |-> Get(r, "trace", <<>>),
                       score |-> Scored(b).score,
                       feedback |-> Scored(b).feedback,
                       execution_time_ms |->
                           Get(r, "execution_time_ms", PyNone)],
             invoked |-> <<Invocation(inst, Get(r, "trace", <<>>))>>]

\* evaluate, lines 184-217: what the loop body does with the looked-up result
Emit(inst, look, b) ==
    LET r == look.r
    IN  IF look.kind = "KeyError" THEN [kind |-> "KeyError", key |-> "task_id"]
        ELSE IF look.kind = "found" /\ ~Has(r, "status")
        THEN [kind |-> "KeyError", key |-> "status"]
        ELSE IF look.kind = "none" \/ r.status # "completed" THEN
            [kind |-> "error",
             output |-> [error |-> ErrorMsg(look)],
             score |-> 0,
             traj |-> [task |-> inst.task, task_metadata |-> inst.task_metadata,
                       error |-> ErrorMsg(look),
                       status |-> IF look.kind = "none" THEN "not_found"
                                  ELSE Get(r, "status", PyNone)],
             invoked |-> <<>>]
        ELSE
            [kind |-> "scored",
             output |-> [trace |-> Get(r, "trace", <<>>),
                         feedback |-> Scored(b).feedback],
             score |-> Scored(b).score,
             traj |-> [task |-> inst.task, task_metadata |-> inst.task_metadata,
                       trace |-> Get(r, "trace", <<>>),
                       score |-> Scored(b).score,
                       feedback |-> Scored(b).feedback,
                       execution_time_ms |->
                           Get(r, "execution_time_ms", PyNone)],
             invoked |-> <<Invocation(inst, Get(r, "trace", <<>>))>>]

\* a loop body that pairs position k with the k-th entry of the list
Step_byPosition(inst, rs, k, b) ==
    Emit(inst,
         IF k + 1 <= Len(rs) THEN [kind |-> "found", r |-> rs[k + 1]]
         ELSE [kind |-> "none", r |-> NoEntry],
         b)

\* a loop body that calls the entry point, on an empty trace, for the
\* positions without a completed result as well
Step_evalOnEveryPosition(inst, rs, k, b) ==
    LET e == Emit(inst, Lookup(rs, TaskId(k)), b)
    IN  IF e.kind = "error"
        THEN [e EXCEPT !.invoked = <<Invocation(inst, <<>>)>>]
        ELSE e

\* evaluate, lines 181-217: the body of the scoring loop for position k
Step(inst, rs, k, b) == Emit(inst, Lookup(rs, TaskId(k)), b)

(***************************************************************************)
(* HTTP requests and responses.                                            *)
(***************************************************************************)
\* what raise_for_status and the transport can make of one request
Failures == {"http_status", "timeout", "network"}

\* evaluate, lines 164-170, and _poll_for_completion, lines 251-257, 268-274
RequestError(o) ==
    [type |-> "RuntimeError",
     msg |-> CASE o = "http_status" -> "API request failed"
               [] o = "timeout" -> "API request timed out"
               [] o = "network" -> "Network error"]

NoErr == [type |-> "", msg |-> ""]

\* what httpx raises when a request is made on a client that was closed
ClientClosed ==
    [type |-> "RuntimeError",
     msg |-> "Cannot send a request, as the client has been closed."]

Body(fs, st, rs) == [fields |-> fs, status |-> st, results |-> rs]
NoBody == Body({}, "", <<>>)

PollEntries == {E_done0, E_done1, E_failed2}
Statuses == {"pending", "completed", "partial", "failed"}
Terminal == {"completed", "partial", "failed"}

Bodies ==
    { Body({"status", "results"}, st, rs) :
          st \in Statuses, rs \in ListsOver(PollEntries) }
    \cup { Body({"status"}, st, <<>>) : st \in Statuses }
    \cup { Body({"results"}, "", <<E_done0>>) }

\* a request as the platform sees it: when it was sent, when its response
\* (or its failure) came back, and whether the poll deadline had already
\* elapsed when it was sent
Request(m, id, t0, t1, late) ==
    [method |-> m, batch_id |-> id, sent |-> t0, answered |-> t1,
     afterDeadline |-> late]

Req(m, id) ==
    Request(m, id, clock, clock', clock - start_time >= PollTimeout)

(***************************************************************************)
(* The adapter object.  state is "none" before construction, "ready" once  *)
(* __init__ has returned and "failed" when it raised; client is the state  *)
(* of self.client; scope is the adapter's position with respect to a with  *)
(* block; closes counts the calls of close(), releases the times the       *)
(* connection pool of the client was actually closed, calls the calls of   *)
(* evaluate; outcomes lists how the finished calls ended; escaped is the   *)
(* exception the last operation on the adapter let through.                *)
(***************************************************************************)
Adapter(st, code, cl) ==
    [state |-> st, eval_code |-> code, client |-> cl, scope |-> "none",
     closes |-> 0, releases |-> 0, calls |-> 0, outcomes |-> <<>>,
     escaped |-> ""]

NoAdapter == Adapter("none", "", "none")

\* an adapter whose construction succeeded, inside its first evaluate call
AdapterInCall == [Adapter("ready", "defines", "open") EXCEPT !.calls = 1]

\* candidates: mappings from component name to text
Cand(fs, sp, tl) == [fields |-> fs, system_prompt |-> sp, tools |-> tl]
SeedCandidate == Cand({"system_prompt"}, "prompt v1", "")

(***************************************************************************)
(* gepa_runner: the config handed to run_gepa_optimization, the dict it    *)
(* returns, and the state of one call.                                     *)
(***************************************************************************)
RequiredFields == {"api_base_url", "session_token", "agent_id", "eval_code",
                   "seed_prompt", "trainset", "valset", "ai_gateway_url",
                   "ai_gateway_token"}

\* eval_code by what exec makes of it: it defines eval_function, it runs
\* without defining it, or running it raises
EvalCodes == {"defines", "lacks", "raises"}

\* an item of trainset or valset: a dict with some of the keys task and
\* task_metadata
Item(fs) == [fields |-> fs, task |-> "t", task_metadata |-> "m"]
Items == {Item({"task", "task_metadata"}), Item({"task"}),
          Item({"task_metadata"})}
ItemLists == UNION { [1..n -> Items] : n \in 0..MaxItems }

FieldSets == {RequiredFields, RequiredFields \ {"eval_code"},
              RequiredFields \ {"trainset", "valset"}}

Configs ==
    [fields : FieldSets, eval_code : EvalCodes, trainset : ItemLists,
     valset : ItemLists]

NoConfig ==
    [fields |-> {}, eval_code |-> "", trainset |-> <<>>, valset |-> <<>>]

\* the dicts run_gepa_optimization returns
ErrorDict(msg, ty) ==
    [fields |-> {"success", "error", "error_type"}, success |-> FALSE,
     error |-> msg, error_type |-> ty, result |-> ""]
SuccessDict ==
    [fields |-> {"success", "result"}, success |-> TRUE, error |-> "",
     error_type |-> "", result |-> "best"]
NoDict == [fields |-> {}, success |-> FALSE, error |-> "", error_type |-> "",
           result |-> ""]

\* pc: where the call is; returned: what it returned; escaped: the type of
\* the exception that left it; warnings: the progress reports of type
\* warning; closeFailed: adapter.close() raised in this call
Run(p) == [pc |-> p, returned |-> NoDict, escaped |-> "", warnings |-> 0,
           closeFailed |-> FALSE]

NoRunner ==
    /\ config = NoConfig
    /\ GEPA_AVAILABLE = TRUE
    /\ run = Run("none")

\* make_reflective_dataset has not been called
NoData == [isNone |-> TRUE, items |-> <<>>]

\* the arguments and results of the methods other than evaluate, at a call
\* of evaluate with the seed candidate
SeedCall ==
    /\ adapter = AdapterInCall
    /\ candidate = SeedCandidate
    /\ components_to_update = <<>>
    /\ reflective_data = NoData
    /\ NoRunner

(***************************************************************************)
(* Initial states.                                                         *)
(***************************************************************************)
Fresh ==
    /\ clock = 0
    /\ start_time = 0
    /\ data = NoBody
    /\ timedOut = FALSE
    /\ i = 0
    /\ outputs = <<>>
    /\ scores = <<>>
    /\ trajectories = NoneList
    /\ err = NoErr
    /\ invocations = <<>>

\* a call of evaluate on a constructed adapter
Init ==
    /\ Fresh
    /\ batch \in Batches
    /\ capture_traces \in BOOLEAN
    /\ \E b \in Behaviours : evalBeh = [k \in 1..Len(batch) |-> b]
    /\ pc = "start"
    /\ requests = <<>>
    /\ response = ""
    /\ batch_id = ""
    /\ results = <<>>
    /\ SeedCall

\* the same call at line 173, where _poll_for_completion has returned
InitScore ==
    /\ Fresh
    /\ batch \in Batches
    /\ capture_traces \in BOOLEAN
    /\ evalBeh \in [1..Len(batch) -> Behaviours]
    /\ pc = "polled"
    /\ requests = <<Request("POST", "", 0, 0, FALSE),
                    Request("GET", "b1", 0, 0, FALSE)>>
    /\ response = "ok"
    /\ batch_id = "b1"
    /\ results \in ResultLists
    /\ SeedCall

\* line 173 of a call on one task that completed remotely, for every value
\* the entry point may hand back
InitEval ==
    /\ Fresh
    /\ batch = <<DataInst(0)>>
    /\ capture_traces \in BOOLEAN
    /\ evalBeh \in [1..1 -> ReturnValues]
    /\ pc = "polled"
    /\ requests = <<Request("POST", "", 0, 0, FALSE),
                    Request("GET", "b1", 0, 0, FALSE)>>
    /\ response = "ok"
    /\ batch_id = "b1"
    /\ results = <<E_done0>>
    /\ SeedCall

(***************************************************************************)
(* Actions.                                                                *)
(***************************************************************************)
Raise(e) ==
    /\ pc' = "raised"
    /\ err' = e

\* a submission that carries on to polling when its request failed
Submit_swallowsFailure ==
    /\ pc = "start"
    /\ clock' = clock
    /\ IF adapter.client # "open"
       THEN /\ Raise(ClientClosed)
            /\ UNCHANGED <<requests, response, batch_id>>
       ELSE /\ requests' = Append(requests, Req("POST", ""))
            /\ \E o \in {"ok", "bad_json", "no_batch_id"} \cup Failures :
                  /\ response' = o
                  /\ IF o = "ok"
                     THEN pc' = "poll_start" /\ err' = err /\ batch_id' = "b1"
                     ELSE /\ batch_id' = batch_id
                          /\ IF o \in Failures THEN pc' = "poll_start" /\ err' = err
                             ELSE IF o = "bad_json"
                             THEN Raise([type |-> "JSONDecodeError",
                                         msg |-> ""])
                             ELSE Raise([type |-> "KeyError",
                                         msg |-> "batch_id"])
    /\ UNCHANGED <<outer, invocations>>
    /\ UNCHANGED <<batch, capture_traces, evalBeh, start_time, data, timedOut,
                   results, i, outputs, scores, trajectories>>

\* evaluate, lines 149-170: the submission request
Submit ==
    /\ pc = "start"
    /\ clock' = clock
    /\ IF adapter.client # "open"
       THEN /\ Raise(ClientClosed)
            /\ UNCHANGED <<requests, response, batch_id>>
       ELSE /\ requests' = Append(requests, Req("POST", ""))
            /\ \E o \in {"ok", "bad_json", "no_batch_id"} \cup Failures :
                  /\ response' = o
                  /\ IF o = "ok"
                     THEN pc' = "poll_start" /\ err' = err /\ batch_id' = "b1"
                     ELSE /\ batch_id' = batch_id
                          /\ IF o \in Failures THEN Raise(RequestError(o))
                             ELSE IF o = "bad_json"
                             THEN Raise([type |-> "JSONDecodeError",
                                         msg |-> ""])
                             ELSE Raise([type |-> "KeyError",
                                         msg |-> "batch_id"])
    /\ UNCHANGED <<outer, invocations>>
    /\ UNCHANGED <<batch, capture_traces, evalBeh, start_time, data, timedOut,
                   results, i, outputs, scores, trajectories>>

\* _poll_for_completion, line 238
PollStart ==
    /\ pc = "poll_start"
    /\ start_time' = clock
    /\ pc' = "poll_check"
    /\ UNCHANGED <<outer, invocations>>
    /\ UNCHANGED <<batch, capture_traces, evalBeh, clock, requests, response,
                   batch_id, data, timedOut, results, i, outputs, scores,
                   trajectories, err>>

\* a polling loop that gives up with an exception when the deadline elapses
PollCheck_raisesOnDeadline ==
    /\ pc = "poll_check"
    /\ IF clock - start_time < PollTimeout
       THEN pc' = "poll_get" /\ timedOut' = timedOut /\ err' = err
       ELSE /\ timedOut' = TRUE
            /\ Raise([type |-> "RuntimeError", msg |-> "Polling timed out"])
    /\ UNCHANGED <<outer, invocations>>
    /\ UNCHANGED <<batch, capture_traces, evalBeh, clock, start_time, requests,
                   response, batch_id, data, results, i, outputs, scores,
                   trajectories>>

\* a polling loop that grants itself one more timeout when the deadline
\* elapses for the first time
PollCheck_extendsDeadline ==
    /\ pc = "poll_check"
    /\ IF clock - start_time < PollTimeout
       THEN pc' = "poll_get" /\ timedOut' = timedOut /\ start_time' = start_time
       ELSE IF ~timedOut
       THEN pc' = "poll_get" /\ timedOut' = TRUE /\ start_time' = clock
       ELSE pc' = "final_get" /\ timedOut' = TRUE /\ start_time' = start_time
    /\ UNCHANGED <<outer, invocations>>
    /\ UNCHANGED <<batch, capture_traces, evalBeh, clock, requests,
                   response, batch_id, data, results, i, outputs, scores,
                   trajectories, err>>

\* _poll_for_completion, line 240: the loop condition
PollCheck ==
    /\ pc = "poll_check"
    /\ IF clock - start_time < PollTimeout
       THEN pc' = "poll_get" /\ timedOut' = timedOut
       ELSE pc' = "final_get" /\ timedOut' = TRUE
    /\ UNCHANGED <<outer, invocations>>
    /\ UNCHANGED <<batch, capture_traces, evalBeh, clock, start_time, requests,
                   response, batch_id, data, results, i, outputs, scores,
                   trajectories, err>>

\* a polling loop that waits and asks again when a status request failed
PollGet_retriesOnFailure ==
    /\ pc = "poll_get"
    /\ \E lat \in 0..MaxLatency : clock' = clock + lat
    /\ requests' = Append(requests, Req("GET", batch_id))
    /\ \/ \E o \in Failures :
             /\ response' = o
             /\ pc' = "poll_sleep"
             /\ UNCHANGED <<data, results, err>>
       \/ /\ response' = "bad_json"
          /\ Raise([type |-> "JSONDecodeError", msg |-> ""])
          /\ UNCHANGED <<data, results>>
       \/ \E body \in Bodies :
             /\ response' = "ok"
             /\ data' = body
             /\ IF Get(body, "status", PyNone) \in Terminal
                THEN /\ results' = Get(body, "results", <<>>)
                     /\ pc' = "polled"
                ELSE /\ results' = results
                     /\ pc' = "poll_sleep"
             /\ err' = err
    /\ UNCHANGED <<outer, invocations>>
    /\ UNCHANGED <<batch, capture_traces, evalBeh, start_time, batch_id,
                   timedOut, i, outputs, scores, trajectories>>

\* a polling loop that keeps waiting on a batch reported as partial
PollGet_partialKeepsWaiting ==
    /\ pc = "poll_get"
    /\ \E lat \in 0..MaxLatency : clock' = clock + lat
    /\ requests' = Append(requests, Req("GET", batch_id))
    /\ \/ \E o \in Failures :
             /\ response' = o
             /\ Raise(RequestError(o))
             /\ UNCHANGED <<data, results>>
       \/ /\ response' = "bad_json"
          /\ Raise([type |-> "JSONDecodeError", msg |-> ""])
          /\ UNCHANGED <<data, results>>
       \/ \E body \in Bodies :
             /\ response' = "ok"
             /\ data' = body
             /\ IF Get(body, "status", PyNone) \in Terminal \ {"partial"}
                THEN /\ results' = Get(body, "results", <<>>)
                     /\ pc' = "polled"
                ELSE /\ results' = results
                     /\ pc' = "poll_sleep"
             /\ err' = err
    /\ UNCHANGED <<outer, invocations>>
    /\ UNCHANGED <<batch, capture_traces, evalBeh, start_time, batch_id,
                   timedOut, i, outputs, scores, trajectories>>

\* _poll_for_completion, lines 241-257: one status request inside the loop
PollGet ==
    /\ pc = "poll_get"
    /\ \E lat \in 0..MaxLatency : clock' = clock + lat
    /\ requests' = Append(requests, Req("GET", batch_id))
    /\ \/ \E o \in Failures :
             /\ response' = o
             /\ Raise(RequestError(o))
             /\ UNCHANGED <<data, results>>
       \/ /\ response' = "bad_json"
          /\ Raise([type |-> "JSONDecodeError", msg |-> ""])
          /\ UNCHANGED <<data, results>>
       \/ \E body \in Bodies :
             /\ response' = "ok"
             /\ data' = body
             /\ IF Get(body, "status", PyNone) \in Terminal
                THEN /\ results' = Get(body, "results", <<>>)
                     /\ pc' = "polled"
                ELSE /\ results' = results
                     /\ pc' = "poll_sleep"
             /\ err' = err
    /\ UNCHANGED <<outer, invocations>>
    /\ UNCHANGED <<batch, capture_traces, evalBeh, start_time, batch_id,
                   timedOut, i, outputs, scores, trajectories>>

\* _poll_for_completion, line 250
PollSleep ==
    /\ pc = "poll_sleep"
    /\ clock' = clock + PollInterval
    /\ pc' = "poll_check"
    /\ UNCHANGED <<outer, invocations>>
    /\ UNCHANGED <<batch, capture_traces, evalBeh, start_time, requests,
                   response, batch_id, data, timedOut, results, i, outputs,
                   scores, trajectories, err>>

\* a final fetch that goes back to waiting while the batch is not terminal
FinalGet_keepsPolling ==
    /\ pc = "final_get"
    /\ \E lat \in 0..MaxLatency : clock' = clock + lat
    /\ requests' = Append(requests, Req("GET", batch_id))
    /\ \/ \E o \in Failures :
             /\ response' = o
             /\ Raise(RequestError(o))
             /\ UNCHANGED <<data, results>>
       \/ /\ response' = "bad_json"
          /\ Raise([type |-> "JSONDecodeError", msg |-> ""])
          /\ UNCHANGED <<data, results>>
       \/ \E body \in Bodies :
             /\ response' = "ok"
             /\ data' = body
             /\ IF Get(body, "status", PyNone) \in Terminal
                THEN /\ results' = Get(body, "results", <<>>)
                     /\ pc' = "polled"
                ELSE /\ results' = results
                     /\ pc' = "final_get"
             /\ err' = err
    /\ UNCHANGED <<outer, invocations>>
    /\ UNCHANGED <<batch, capture_traces, evalBeh, start_time, batch_id,
                   timedOut, i, outputs, scores, trajectories>>

\* a final fetch that first asks the platform to cancel the batch
FinalGet_cancelsBatch ==
    /\ pc = "final_get"
    /\ \E lat \in 0..MaxLatency : clock' = clock + lat
    /\ requests' = Append(Append(requests, Req("DELETE", batch_id)),
                        Req("GET", batch_id))
    /\ \/ \E o \in Failures :
             /\ response' = o
             /\ Raise(RequestError(o))
             /\ UNCHANGED <<data, results>>
       \/ /\ response' = "bad_json"
          /\ Raise([type |-> "JSONDecodeError", msg |-> ""])
          /\ UNCHANGED <<data, results>>
       \/ \E body \in Bodies :
             /\ response' = "ok"
             /\ data' = body
             /\ results' = Get(body, "results", <<>>)
             /\ pc' = "polled"
             /\ err' = err
    /\ UNCHANGED <<outer, invocations>>
    /\ UNCHANGED <<batch, capture_traces, evalBeh, start_time, batch_id,
                   timedOut, i, outputs, scores, trajectories>>

\* _poll_for_completion, lines 259-274: the fetch after the deadline
FinalGet ==
    /\ pc = "final_get"
    /\ \E lat \in 0..MaxLatency : clock' = clock + lat
    /\ requests' = Append(requests, Req("GET", batch_id))
    /\ \/ \E o \in Failures :
             /\ response' = o
             /\ Raise(RequestError(o))
             /\ UNCHANGED <<data, results>>
       \/ /\ response' = "bad_json"
          /\ Raise([type |-> "JSONDecodeError", msg |-> ""])
          /\ UNCHANGED <<data, results>>
       \/ \E body \in Bodies :
             /\ response' = "ok"
             /\ data' = body
             /\ results' = Get(body, "results", <<>>)
             /\ pc' = "polled"
             /\ err' = err
    /\ UNCHANGED <<outer, invocations>>
    /\ UNCHANGED <<batch, capture_traces, evalBeh, start_time, batch_id,
                   timedOut, i, outputs, scores, trajectories>>

\* evaluate, lines 175-178
BeginScoring ==
    /\ pc = "polled"
    /\ outputs' = <<>>
    /\ scores' = <<>>
    /\ trajectories' = IF capture_traces THEN PyList(<<>>) ELSE NoneList
    /\ i' = 0
    /\ pc' = "score"
    /\ UNCHANGED <<outer, invocations>>
    /\ UNCHANGED <<batch, capture_traces, evalBeh, clock, start_time, requests,
                   response, batch_id, data, timedOut, results, err>>

\* a scoring loop that skips the positions it cannot score
ScoreStep_dropFailed ==
    /\ pc = "score"
    /\ i < Len(batch)
    /\ LET s == Step(batch[i + 1], results, i, evalBeh[i + 1])
       IN  IF s.kind = "KeyError"
           THEN /\ Raise([type |-> "KeyError", msg |-> s.key])
                /\ UNCHANGED <<i, outputs, scores, trajectories,
                               invocations>>
           ELSE IF s.kind = "error"
           THEN /\ i' = i + 1
                /\ UNCHANGED <<pc, err, outputs, scores, trajectories,
                               invocations>>
           ELSE /\ outputs' = Append(outputs, s.output)
                /\ scores' = Append(scores, s.score)
                /\ trajectories' =
                       IF capture_traces
                       THEN PyList(Append(trajectories.items, s.traj))
                       ELSE trajectories
                /\ i' = i + 1
                /\ invocations' = invocations \o s.invoked
                /\ UNCHANGED <<pc, err>>
    /\ UNCHANGED outer
    /\ UNCHANGED <<batch, capture_traces, evalBeh, clock, start_time, requests,
                   response, batch_id, data, timedOut, results>>

\* a scoring loop without the try/except around _run_eval
ScoreStep_evalRaises ==
    /\ pc = "score"
    /\ i < Len(batch)
    /\ LET s == Step(batch[i + 1], results, i, evalBeh[i + 1])
       IN  IF s.kind = "KeyError"
           THEN /\ Raise([type |-> "KeyError", msg |-> s.key])
                /\ UNCHANGED <<i, outputs, scores, trajectories,
                               invocations>>
           ELSE IF s.kind = "scored" /\ RunEval(evalBeh[i + 1]).raised
           THEN /\ Raise([type |-> "Exception", msg |-> evalBeh[i + 1].text])
                /\ UNCHANGED <<i, outputs, scores, trajectories,
                               invocations>>
           ELSE /\ outputs' = Append(outputs, s.output)
                /\ scores' = Append(scores, s.score)
                /\ trajectories' =
                       IF capture_traces
                       THEN PyList(Append(trajectories.items, s.traj))
                       ELSE trajectories
                /\ i' = i + 1
                /\ invocations' = invocations \o s.invoked
                /\ UNCHANGED <<pc, err>>
    /\ UNCHANGED outer
    /\ UNCHANGED <<batch, capture_traces, evalBeh, clock, start_time, requests,
                   response, batch_id, data, timedOut, results>>

\* a scoring loop that writes the score back into the instance it scored
ScoreStep_marksInstance ==
    /\ pc = "score"
    /\ i < Len(batch)
    /\ LET s == Step(batch[i + 1], results, i, evalBeh[i + 1])
       IN  IF s.kind = "KeyError"
           THEN /\ Raise([type |-> "KeyError", msg |-> s.key])
                /\ UNCHANGED <<batch, i, outputs, scores, trajectories,
                               invocations>>
           ELSE /\ outputs' = Append(outputs, s.output)
                /\ scores' = Append(scores, s.score)
                /\ trajectories' =
                       IF capture_traces
                       THEN PyList(Append(trajectories.items, s.traj))
                       ELSE trajectories
                /\ batch' = [batch EXCEPT
                                 ![i + 1].task_metadata = [expected |-> "scored"]]
                /\ i' = i + 1
                /\ invocations' = invocations \o s.invoked
                /\ UNCHANGED <<pc, err>>
    /\ UNCHANGED outer
    /\ UNCHANGED <<capture_traces, evalBeh, clock, start_time, requests,
                   response, batch_id, data, timedOut, results>>

\* a scoring loop that scores nothing unless the batch as a whole completed
ScoreStep_trustsBatchStatus ==
    /\ pc = "score"
    /\ i < Len(batch)
    /\ LET s == Step(batch[i + 1],
                     IF Get(data, "status", PyNone) = "completed"
                     THEN results ELSE <<>>,
                     i, evalBeh[i + 1])
       IN  IF s.kind = "KeyError"
           THEN /\ Raise([type |-> "KeyError", msg |-> s.key])
                /\ UNCHANGED <<i, outputs, scores, trajectories,
                               invocations>>
           ELSE /\ outputs' = Append(outputs, s.output)
                /\ scores' = Append(scores, s.score)
                /\ trajectories' =
                       IF capture_traces
                       THEN PyList(Append(trajectories.items, s.traj))
                       ELSE trajectories
                /\ i' = i + 1
                /\ invocations' = invocations \o s.invoked
                /\ UNCHANGED <<pc, err>>
    /\ UNCHANGED outer
    /\ UNCHANGED <<batch, capture_traces, evalBeh, clock, start_time, requests,
                   response, batch_id, data, timedOut, results>>

\* evaluate, lines 180-217: one iteration of the scoring loop
ScoreStep ==
    /\ pc = "score"
    /\ i < Len(batch)
    /\ LET s == Step(batch[i + 1], results, i, evalBeh[i + 1])
       IN  IF s.kind = "KeyError"
           THEN /\ Raise([type |-> "KeyError", msg |-> s.key])
                /\ UNCHANGED <<i, outputs, scores, trajectories,
                               invocations>>
           ELSE /\ outputs' = Append(outputs, s.output)
                /\ scores' = Append(scores, s.score)
                /\ trajectories' =
                       IF capture_traces
                       THEN PyList(Append(trajectories.items, s.traj))
                       ELSE trajectories
                /\ i' = i + 1
                /\ invocations' = invocations \o s.invoked
                /\ UNCHANGED <<pc, err>>
    /\ UNCHANGED outer
    /\ UNCHANGED <<batch, capture_traces, evalBeh, clock, start_time, requests,
                   response, batch_id, data, timedOut, results>>

\* evaluate, lines 219-223
Return ==
    /\ pc = "score"
    /\ i = Len(batch)
    /\ pc' = "done"
    /\ UNCHANGED <<outer, invocations>>
    /\ UNCHANGED <<batch, capture_traces, evalBeh, clock, start_time, requests,
                   response, batch_id, data, timedOut, results, i, outputs,
                   scores, trajectories, err>>

Next ==
    \/ Submit
    \/ PollStart
    \/ PollCheck
    \/ PollGet
    \/ PollSleep
    \/ FinalGet
    \/ BeginScoring
    \/ ScoreStep
    \/ Return

Spec == Init /\ [][Next]_vars

\* evaluate is one synchronous thread: each statement is followed by the
\* next as long as requests come back and time.sleep ends
InitLive ==
    /\ Init
    /\ Len(batch) <= MaxLiveBatch
    /\ capture_traces

SpecLive == InitLive /\ [][Next]_vars /\ WF_vars(Next)

NextScore ==
    \/ BeginScoring
    \/ ScoreStep
    \/ Return

SpecScore == InitScore /\ [][NextScore]_vars

SpecEval == InitEval /\ [][NextScore]_vars

\* line 173 of a call on one task that completed remotely, for every trace
\* the platform may have recorded
InitExtract ==
    /\ Fresh
    /\ batch = <<DataInst(0)>>
    /\ capture_traces \in BOOLEAN
    /\ evalBeh \in [1..1 -> Behaviours]
    /\ pc = "polled"
    /\ requests = <<Request("POST", "", 0, 0, FALSE),
                    Request("GET", "b1", 0, 0, FALSE)>>
    /\ response = "ok"
    /\ batch_id = "b1"
    /\ \E t \in Traces : results = <<[E_done0 EXCEPT !.trace = t]>>
    /\ SeedCall

SpecExtract == InitExtract /\ [][NextScore]_vars

(***************************************************************************)
(* The life of one adapter: construction, the with block, calls of         *)
(* evaluate, close().  The caller is single-threaded: it operates on the   *)
(* adapter only between calls of evaluate.                                 *)
(***************************************************************************)
BetweenCalls == pc \in {"idle", "done", "raised"}

\* how the call of evaluate that has just ended, if any, ended
Ended ==
    IF pc = "done"
    THEN IF \E k \in DOMAIN scores : scores[k] = 0
         THEN <<"zero_scored">> ELSE <<"returned">>
    ELSE IF pc = "raised" THEN <<"raised">>
    ELSE <<>>

\* the caller has taken note of how the last call ended
Noted(a) == [a EXCEPT !.outcomes = @ \o Ended]

evalLocals == <<batch, capture_traces, evalBeh, clock, start_time, requests,
                response, batch_id, data, timedOut, results, i, outputs,
                scores, trajectories, err, invocations>>

\* the locals of a call of evaluate that has ended are gone
FrameGone ==
    /\ batch' = <<>>
    /\ capture_traces' = FALSE
    /\ evalBeh' = <<>>
    /\ clock' = 0
    /\ start_time' = 0
    /\ requests' = <<>>
    /\ response' = ""
    /\ batch_id' = ""
    /\ data' = NoBody
    /\ timedOut' = FALSE
    /\ results' = <<>>
    /\ i' = 0
    /\ outputs' = <<>>
    /\ scores' = <<>>
    /\ trajectories' = NoneList
    /\ err' = NoErr
    /\ invocations' = <<>>

\* a constructor that leaves the check of the entry point to the first use
Construct_checksAtFirstUse ==
    /\ pc = "idle"
    /\ adapter.state = "none"
    /\ \E code \in EvalCodes :
          adapter' =
              IF code = "raises"
              THEN [Adapter("failed", code, "open") EXCEPT
                        !.escaped = "Exception"]
              ELSE Adapter("ready", code, "open")
    /\ UNCHANGED <<pc, candidate, components_to_update, reflective_data,
                   runner>>
    /\ UNCHANGED evalLocals

\* __init__, lines 91-111: the client is opened, then eval_code is executed
\* and looked up
Construct ==
    /\ pc = "idle"
    /\ adapter.state = "none"
    /\ \E code \in EvalCodes :
          adapter' =
              IF code = "raises"
              THEN [Adapter("failed", code, "open") EXCEPT
                        !.escaped = "Exception"]
              ELSE IF code = "lacks"
              THEN [Adapter("failed", code, "open") EXCEPT
                        !.escaped = "ValueError"]
              ELSE Adapter("ready", code, "open")
    /\ UNCHANGED <<pc, candidate, components_to_update, reflective_data,
                   runner>>
    /\ UNCHANGED evalLocals

\* __enter__, lines 383-385
Enter ==
    /\ BetweenCalls
    /\ adapter.state = "ready"
    /\ adapter.scope = "none"
    /\ adapter' = [Noted(adapter) EXCEPT !.scope = "in", !.escaped = ""]
    /\ pc' = "idle"
    /\ FrameGone
    /\ UNCHANGED <<candidate, components_to_update, reflective_data, runner>>

\* the caller invokes evaluate, lines 113-147, on a batch of one task with
\* trace capture
CallBatches == { b \in Batches : Len(b) = 1 }

Call ==
    /\ BetweenCalls
    /\ adapter.state = "ready"
    /\ adapter.calls < MaxCalls
    /\ adapter' = [Noted(adapter) EXCEPT !.calls = @ + 1, !.escaped = ""]
    /\ batch' \in CallBatches
    /\ capture_traces' = TRUE
    /\ \E b \in Behaviours : evalBeh' = [k \in 1..Len(batch') |-> b]
    /\ pc' = "start"
    /\ clock' = 0
    /\ start_time' = 0
    /\ requests' = <<>>
    /\ response' = ""
    /\ batch_id' = ""
    /\ data' = NoBody
    /\ timedOut' = FALSE
    /\ results' = <<>>
    /\ i' = 0
    /\ outputs' = <<>>
    /\ scores' = <<>>
    /\ trajectories' = NoneList
    /\ err' = NoErr
    /\ invocations' = <<>>
    /\ UNCHANGED <<candidate, components_to_update, reflective_data, runner>>

\* a client whose close() closes the connection pool at every call
CloseClient_everyTime(a, fails) ==
    [a EXCEPT !.client = "closed",
              !.releases = @ + 1,
              !.escaped = IF fails THEN "Exception" ELSE ""]

\* self.client.close(), line 381: httpx closes the connection pool of a
\* client that is not yet closed, after marking it closed, and does nothing
\* on a closed one; closing the pool may fail (gepa_runner.py, lines
\* 313-319, provides for an exception of adapter.close())
CloseClient(a, fails) ==
    IF a.client = "open"
    THEN [a EXCEPT !.client = "closed",
                   !.releases = @ + 1,
                   !.escaped = IF fails THEN "Exception" ELSE ""]
    ELSE [a EXCEPT !.escaped = ""]

\* close(), lines 379-381
Close ==
    /\ BetweenCalls
    /\ adapter.state = "ready"
    /\ adapter.closes < MaxCloses
    /\ \E fails \in BOOLEAN :
          adapter' = CloseClient([Noted(adapter) EXCEPT !.closes = @ + 1],
                                 fails)
    /\ pc' = "idle"
    /\ FrameGone
    /\ UNCHANGED <<candidate, components_to_update, reflective_data, runner>>

\* a with block whose __exit__ releases nothing when an exception leaves it
Exit_keepsOpenOnException ==
    /\ BetweenCalls
    /\ adapter.state = "ready"
    /\ adapter.scope = "in"
    /\ \E fails \in BOOLEAN :
          adapter' =
              IF pc = "raised"
              THEN [Noted(adapter) EXCEPT !.scope = "left", !.escaped = ""]
              ELSE CloseClient([Noted(adapter) EXCEPT !.scope = "left",
                                                      !.closes = @ + 1],
                               fails)
    /\ pc' = "idle"
    /\ FrameGone
    /\ UNCHANGED <<candidate, components_to_update, reflective_data, runner>>

\* the with block is left, normally or by an exception: __exit__, lines
\* 387-389
Exit ==
    /\ BetweenCalls
    /\ adapter.state = "ready"
    /\ adapter.scope = "in"
    /\ \E fails \in BOOLEAN :
          adapter' = CloseClient([Noted(adapter) EXCEPT !.scope = "left",
                                                       !.closes = @ + 1],
                                 fails)
    /\ pc' = "idle"
    /\ FrameGone
    /\ UNCHANGED <<candidate, components_to_update, reflective_data, runner>>

InitLife ==
    /\ Fresh
    /\ batch = <<>>
    /\ capture_traces = FALSE
    /\ evalBeh = <<>>
    /\ pc = "idle"
    /\ requests = <<>>
    /\ response = ""
    /\ batch_id = ""
    /\ results = <<>>
    /\ adapter = NoAdapter
    /\ candidate = SeedCandidate
    /\ components_to_update = <<>>
    /\ reflective_data = NoData
    /\ NoRunner

NextLife ==
    \/ Construct
    \/ Enter
    \/ Call
    \/ Close
    \/ Exit
    \/ Submit
    \/ PollStart
    \/ PollCheck
    \/ PollGet
    \/ PollSleep
    \/ FinalGet
    \/ BeginScoring
    \/ ScoreStep
    \/ Return

SpecLife == InitLife /\ [][NextLife]_vars

(***************************************************************************)
(* run_gepa_optimization, gepa_runner.py lines 100-319.  optimize is the   *)
(* external library: it returns a result or raises.                        *)
(***************************************************************************)
Returns(d) == [run EXCEPT !.pc = "returned", !.returned = d]

\* adapter.close() inside try/except, as at lines 203-206, 242-245, 313-319
ClosedByRunner(fails) ==
    [CloseClient([adapter EXCEPT !.closes = @ + 1], fails) EXCEPT
         !.escaped = ""]

\* lines 127-147: the required fields
RunValidate ==
    /\ run.pc = "validate"
    /\ run' = IF config.fields # RequiredFields
              THEN Returns(ErrorDict("Missing required config fields",
                                     "ValueError"))
              ELSE [run EXCEPT !.pc = "construct"]
    /\ UNCHANGED <<adapter, candidate, components_to_update, reflective_data,
                   config, GEPA_AVAILABLE, pc>>
    /\ UNCHANGED evalLocals

\* lines 155-184: the adapter is constructed; both except clauses return
RunConstruct ==
    /\ run.pc = "construct"
    /\ adapter' =
           IF config.eval_code = "defines"
           THEN Adapter("ready", config.eval_code, "open")
           ELSE Adapter("failed", config.eval_code, "open")
    /\ run' = IF config.eval_code = "lacks"
              THEN Returns(ErrorDict("Adapter initialization failed",
                                     "ValueError"))
              ELSE IF config.eval_code = "raises"
              THEN Returns(ErrorDict(
                       "Unexpected error during adapter initialization",
                       "Exception"))
              ELSE [run EXCEPT !.pc = "reflection"]
    /\ UNCHANGED <<candidate, components_to_update, reflective_data,
                   config, GEPA_AVAILABLE, pc>>
    /\ UNCHANGED evalLocals

\* lines 192-211: the reflection client; when it cannot be built the adapter
\* is closed, an exception of close() is dropped, and an error is returned
RunReflection ==
    /\ run.pc = "reflection"
    /\ \/ /\ run' = [run EXCEPT !.pc = "convert"]
          /\ UNCHANGED adapter
       \/ \E fails \in BOOLEAN :
             /\ adapter' = ClosedByRunner(fails)
             /\ run' = [Returns(ErrorDict("Failed to initialize OpenAI client",
                                          "Exception"))
                            EXCEPT !.closeFailed = fails]
    /\ UNCHANGED <<candidate, components_to_update, reflective_data,
                   config, GEPA_AVAILABLE, pc>>
    /\ UNCHANGED evalLocals

HasTask(item) == Has(item, "task")
AllHaveTask(items) == \A k \in DOMAIN items : HasTask(items[k])

\* lines 219-233: item["task"] of every item of the trainset, then of the
\* valset, outside any try
RunConvert ==
    /\ run.pc = "convert"
    /\ run' = IF AllHaveTask(config.trainset) /\ AllHaveTask(config.valset)
              THEN [run EXCEPT !.pc = "available"]
              ELSE [run EXCEPT !.pc = "raised", !.escaped = "KeyError"]
    /\ UNCHANGED <<adapter, candidate, components_to_update, reflective_data,
                   config, GEPA_AVAILABLE, pc>>
    /\ UNCHANGED evalLocals

\* lines 236-257: without the gepa library the adapter is closed, an
\* exception of close() is dropped, and an error is returned
RunAvailable ==
    /\ run.pc = "available"
    /\ IF GEPA_AVAILABLE
       THEN /\ run' = [run EXCEPT !.pc = "optimize"]
            /\ UNCHANGED adapter
       ELSE \E fails \in BOOLEAN :
               /\ adapter' = ClosedByRunner(fails)
               /\ run' = [Returns(ErrorDict("GEPA library not installed",
                                            "ImportError"))
                              EXCEPT !.closeFailed = fails]
    /\ UNCHANGED <<candidate, components_to_update, reflective_data,
                   config, GEPA_AVAILABLE, pc>>
    /\ UNCHANGED evalLocals

\* lines 259-319: optimize returns or raises; the finally clause closes the
\* adapter and reports an exception of close() as a warning; then the dict
\* of the try or of the except clause is returned
RunOptimize ==
    /\ run.pc = "optimize"
    /\ \E raises \in BOOLEAN, fails \in BOOLEAN :
          /\ adapter' = ClosedByRunner(fails)
          /\ run' = [Returns(IF raises
                             THEN ErrorDict("GEPA optimization failed",
                                            "Exception")
                             ELSE SuccessDict)
                         EXCEPT !.closeFailed = fails,
                                !.warnings = IF fails THEN @ + 1 ELSE @]
    /\ UNCHANGED <<candidate, components_to_update, reflective_data,
                   config, GEPA_AVAILABLE, pc>>
    /\ UNCHANGED evalLocals

InitRun ==
    /\ Fresh
    /\ batch = <<>>
    /\ capture_traces = FALSE
    /\ evalBeh = <<>>
    /\ pc = "idle"
    /\ requests = <<>>
    /\ response = ""
    /\ batch_id = ""
    /\ results = <<>>
    /\ adapter = NoAdapter
    /\ candidate = SeedCandidate
    /\ components_to_update = <<>>
    /\ reflective_data = NoData
    /\ config \in Configs
    /\ GEPA_AVAILABLE \in BOOLEAN
    /\ run = Run("validate")

NextRun ==
    \/ RunValidate
    \/ RunConstruct
    \/ RunReflection
    \/ RunConvert
    \/ RunAvailable
    \/ RunOptimize

SpecRun == InitRun /\ [][NextRun]_vars

(***************************************************************************)
(* make_reflective_dataset, lines 339-377, called on the EvaluationBatch   *)
(* that evaluate has returned.                                             *)
(***************************************************************************)
PerfectScore == 100  \* the 1.0 of line 364

EmptyDict == <<>>

Components == {"system_prompt", "tools"}

\* the requested components: names without repetition, in some order
ComponentLists ==
    UNION { { c \in [1..n -> Components] : Injective(c) } :
                n \in 0..MaxComponents }

Candidates ==
    {SeedCandidate, Cand({"system_prompt", "tools"}, "prompt v1", "tools v1"),
     Cand({}, "", "")}

\* a reflective record that passes an error message off as feedback
ReflectiveRecord_errorAsFeedback(cand, eb, k, comp) ==
    LET trajectory == IF ~eb.trajectories.isNone /\ eb.trajectories.items # <<>>
                      THEN eb.trajectories.items[k] ELSE EmptyDict
        output == eb.outputs[k]
    IN  [task |-> IF "task" \in DOMAIN trajectory THEN trajectory.task
                  ELSE EmptyDict,
         task_metadata |-> IF "task_metadata" \in DOMAIN trajectory
                           THEN trajectory.task_metadata ELSE EmptyDict,
         output |-> output,
         score |-> eb.scores[k],
         current_text |-> Get(cand, comp, ""),
         feedback |-> IF "feedback" \in DOMAIN output THEN output.feedback
                      ELSE output.error]

\* lines 365-375: the record appended for position k (1-based) and comp
ReflectiveRecord(cand, eb, k, comp) ==
    LET trajectory == IF ~eb.trajectories.isNone /\ eb.trajectories.items # <<>>
                      THEN eb.trajectories.items[k] ELSE EmptyDict
        output == eb.outputs[k]
    IN  [task |-> IF "task" \in DOMAIN trajectory THEN trajectory.task
                  ELSE EmptyDict,
         task_metadata |-> IF "task_metadata" \in DOMAIN trajectory
                           THEN trajectory.task_metadata ELSE EmptyDict,
         output |-> output,
         score |-> eb.scores[k],
         current_text |-> Get(cand, comp, ""),
         feedback |-> IF "feedback" \in DOMAIN output THEN output.feedback
                      ELSE ""]

\* the times comp is met by the loop of line 367
Occurrences(comps, comp) ==
    Cardinality({ j \in DOMAIN comps : comps[j] = comp })

\* a loop that keeps every position whose score is at most 1.0
RECURSIVE RecordsFrom_includesPerfect(_, _, _, _, _)
RecordsFrom_includesPerfect(cand, eb, comps, comp, k) ==
    IF k > Len(eb.outputs) \/ k > Len(eb.scores) THEN <<>>
    ELSE (IF eb.scores[k] <= PerfectScore
          THEN [j \in 1..Occurrences(comps, comp) |->
                   ReflectiveRecord(cand, eb, k, comp)]
          ELSE <<>>)
         \o RecordsFrom_includesPerfect(cand, eb, comps, comp, k + 1)

\* lines 362-375: the list built for comp from position k (1-based) onwards
RECURSIVE RecordsFrom(_, _, _, _, _)
RecordsFrom(cand, eb, comps, comp, k) ==
    IF k > Len(eb.outputs) \/ k > Len(eb.scores) THEN <<>>
    ELSE (IF eb.scores[k] < PerfectScore
          THEN [j \in 1..Occurrences(comps, comp) |->
                   ReflectiveRecord(cand, eb, k, comp)]
          ELSE <<>>)
         \o RecordsFrom(cand, eb, comps, comp, k + 1)

\* lines 360-377
ReflectiveData(cand, eb, comps) ==
    [comp \in { comps[j] : j \in DOMAIN comps } |->
        RecordsFrom(cand, eb, comps, comp, 1)]

MakeReflectiveDataset ==
    /\ pc = "done"
    /\ \E comps \in ComponentLists :
          /\ components_to_update' = comps
          /\ reflective_data' =
                 [isNone |-> FALSE,
                  items |-> ReflectiveData(
                                candidate,
                                [outputs |-> outputs, scores |-> scores,
                                 trajectories |-> trajectories],
                                comps)]
    /\ pc' = "reflected"
    /\ UNCHANGED <<adapter, candidate, runner>>
    /\ UNCHANGED evalLocals

\* entry points for the reflective dataset: a perfect score, a partial
\* success, a score above 1.0 and an exception
ReflectBehaviours ==
    {Beh("float", 100, ""), Beh("pair", 90, "close"),
     Beh("pair", 150, "too high"), Beh("raise", 0, "boom")}

ReflectResults ==
    {<<E_done0, E_done1, E_failed2>>, <<E_done1, E_done0>>, <<E_running0>>}

\* line 173 of a call whose batch will be handed to make_reflective_dataset
InitReflect ==
    /\ Fresh
    /\ batch \in Batches
    /\ capture_traces \in BOOLEAN
    /\ evalBeh \in [1..Len(batch) -> ReflectBehaviours]
    /\ pc = "polled"
    /\ requests = <<Request("POST", "", 0, 0, FALSE),
                    Request("GET", "b1", 0, 0, FALSE)>>
    /\ response = "ok"
    /\ batch_id = "b1"
    /\ results \in ReflectResults
    /\ adapter = AdapterInCall
    /\ candidate \in Candidates
    /\ components_to_update = <<>>
    /\ reflective_data = NoData
    /\ NoRunner

NextReflect ==
    \/ BeginScoring
    \/ ScoreStep
    \/ Return
    \/ MakeReflectiveDataset

SpecReflect == InitReflect /\ [][NextReflect]_vars

(***************************************************************************)
(* Vocabulary of the properties.                                           *)
(***************************************************************************)
Positions == 0..(Len(batch) - 1)

\* evaluate has returned an EvaluationBatch
Returned == pc = "done"

\* the positions the scoring loop has emitted an output and a score for
Handled == 0..(Len(outputs) - 1)

\* the entry evaluate pairs with position k in the list rs
ResultOf(rs, k) == Lookup(rs, TaskId(k))

IsCompleted(rs, k) ==
    /\ ResultOf(rs, k).kind = "found"
    /\ Has(ResultOf(rs, k).r, "status")
    /\ ResultOf(rs, k).r.status = "completed"

\* the call on the list rs ends with an exception in the scoring loop
Aborts(rs) ==
    \E k \in Positions :
        Step(batch[k + 1], rs, k, evalBeh[k + 1]).kind = "KeyError"

\* the EvaluationBatch the call returns on the list rs when it does not abort
BatchOn(rs) ==
    [outputs |-> [k \in 1..Len(batch) |->
                     Step(batch[k], rs, k - 1, evalBeh[k]).output],
     scores |-> [k \in 1..Len(batch) |->
                     Step(batch[k], rs, k - 1, evalBeh[k]).score],
     trajectories |->
         IF capture_traces
         THEN PyList([k \in 1..Len(batch) |->
                         Step(batch[k], rs, k - 1, evalBeh[k]).traj])
         ELSE NoneList]

ReturnedBatch ==
    [outputs |-> outputs, scores |-> scores, trajectories |-> trajectories]

Reorderings(rs) ==
    { [k \in 1..Len(rs) |-> rs[f[k]]] : f \in Permutations(1..Len(rs)) }

DistinctIds(rs) ==
    \A a, b \in DOMAIN rs :
        (a # b /\ Has(rs[a], "task_id") /\ Has(rs[b], "task_id"))
            => rs[a].task_id # rs[b].task_id

(***************************************************************************)
(* C1: every call of evaluate that returns yields outputs and scores of    *)
(* the length of the batch; trajectories is None exactly when              *)
(* capture_traces is false and has the length of the batch otherwise.      *)
(***************************************************************************)
C1_BatchIsFullLength ==
    Returned =>
        /\ Len(outputs) = Len(batch)
        /\ Len(scores) = Len(batch)
        /\ trajectories.isNone <=> ~capture_traces
        /\ ~trajectories.isNone => Len(trajectories.items) = Len(batch)

\* a returned batch of three with a completed, a missing and a failed task
C1_Witness ==
    /\ Returned
    /\ capture_traces
    /\ Len(batch) = MaxBatch
    /\ results = <<E_failed2, E_done0>>

(***************************************************************************)
(* C2 as stated: whenever evaluate returns, it returns the same batch on   *)
(* every reordering of the result list on which it returns.                *)
(***************************************************************************)
C2_AnyOrderSameBatch ==
    Returned =>
        \A rs \in Reorderings(results) :
            ~Aborts(rs) => BatchOn(rs) = ReturnedBatch

(***************************************************************************)
(* C2 amended: when no two entries of the result list carry the same task  *)
(* identifier, evaluate returns the same batch on every reordering of the  *)
(* list on which it returns.                                               *)
(***************************************************************************)
C2_DistinctIdsAnyOrderSameBatch ==
    (Returned /\ DistinctIds(results)) =>
        \A rs \in Reorderings(results) :
            ~Aborts(rs) => BatchOn(rs) = ReturnedBatch

\* a returned batch whose results arrived in the reverse of the batch order
C2_Witness ==
    /\ Returned
    /\ capture_traces
    /\ Len(batch) = MaxBatch
    /\ results = <<E_failed2, E_done1, E_done0>>

(***************************************************************************)
(* C3: a malformed entry of the result list (one without its task          *)
(* identifier or its status) does not abort evaluate.                      *)
(***************************************************************************)
C3_MalformedEntryDoesNotAbort ==
    ~(pc = "raised" /\ err.type = "KeyError")

(***************************************************************************)
(* C4: every score evaluate has emitted lies in [0.0, 1.0].                *)
(***************************************************************************)
C4_ScoresInUnitInterval ==
    \A k \in 1..Len(scores) : 0 <= scores[k] /\ scores[k] <= 100

(***************************************************************************)
(* C5: a position whose identifier is absent from the result list is given *)
(* score 0.0 and an output carrying an error message, and every other      *)
(* position evaluate has handled has exactly the output, score and         *)
(* trajectory it has when a result for the absent identifier is present,   *)
(* wherever in the list that result stands.                                *)
(***************************************************************************)
EntriesFor(k) ==
    { e \in Entries : Has(e, "task_id") /\ e.task_id = TaskId(k) }

InsertAt(rs, p, e) == SubSeq(rs, 1, p) \o <<e>> \o SubSeq(rs, p + 1, Len(rs))

IsAbsent(rs, k) ==
    \A a \in DOMAIN rs : ~(Has(rs[a], "task_id") /\ rs[a].task_id = TaskId(k))

C5_AbsentTaskZeroScored ==
    /\ Returned => Handled = Positions
    /\ \A k \in Handled :
            IsAbsent(results, k) =>
                /\ scores[k + 1] = 0
                /\ DOMAIN outputs[k + 1] = {"error"}
                /\ outputs[k + 1].error # ""
                /\ \A e \in EntriesFor(k), p \in 0..Len(results) :
                       \A j \in Handled \ {k} :
                           LET s == Step(batch[j + 1], InsertAt(results, p, e),
                                         j, evalBeh[j + 1])
                           IN  /\ s.kind # "KeyError"
                               /\ outputs[j + 1] = s.output
                               /\ scores[j + 1] = s.score
                               /\ capture_traces =>
                                      trajectories.items[j + 1] = s.traj

\* a returned batch of three whose middle task has no result
C5_Witness ==
    /\ Returned
    /\ capture_traces
    /\ Len(batch) = MaxBatch
    /\ results = <<E_done0, E_failed2>>
    /\ evalBeh[1].kind = "float"

(***************************************************************************)
(* C6 as stated: a position whose result is absent or not completed is     *)
(* given output {"error": m} and score 0.0, where m is the result's error  *)
(* message if it carries one and "Task not found" otherwise; a captured    *)
(* trajectory carries the task, its metadata, m and the status of the      *)
(* result.                                                                 *)
(***************************************************************************)
IsNotCompleted(rs, k) ==
    \/ ResultOf(rs, k).kind = "none"
    \/ /\ ResultOf(rs, k).kind = "found"
       /\ Has(ResultOf(rs, k).r, "status")
       /\ ResultOf(rs, k).r.status # "completed"

C6_ErrorOrTaskNotFound ==
    /\ Returned => Handled = Positions
    /\ \A k \in Handled :
            IsNotCompleted(results, k) =>
                LET look == ResultOf(results, k)
                    m == IF look.kind = "found" /\ Has(look.r, "error")
                         THEN look.r.error ELSE "Task not found"
                IN  /\ outputs[k + 1] = [error |-> m]
                    /\ scores[k + 1] = 0
                    /\ capture_traces =>
                           LET t == trajectories.items[k + 1]
                           IN  /\ t.task = batch[k + 1].task
                               /\ t.task_metadata = batch[k + 1].task_metadata
                               /\ t.error = m
                               /\ look.kind = "found" => t.status = look.r.status

(***************************************************************************)
(* C6 amended: a position whose result is absent or not completed is given *)
(* output {"error": m} and score 0.0, where m is the result's error        *)
(* message if it carries one, "Task not completed" if the result is        *)
(* present without one and "Task not found" if it is absent; a captured    *)
(* trajectory is exactly the task, its metadata, m and the status of the   *)
(* result, "not_found" when the result is absent.                          *)
(***************************************************************************)
C6_ErrorOrNotCompletedOrNotFound ==
    /\ Returned => Handled = Positions
    /\ \A k \in Handled :
            IsNotCompleted(results, k) =>
                LET look == ResultOf(results, k)
                    m == IF look.kind = "none" THEN "Task not found"
                         ELSE IF Has(look.r, "error") THEN look.r.error
                         ELSE "Task not completed"
                    st == IF look.kind = "none" THEN "not_found"
                          ELSE look.r.status
                IN  /\ outputs[k + 1] = [error |-> m]
                    /\ scores[k + 1] = 0
                    /\ capture_traces =>
                           trajectories.items[k + 1] =
                               [task |-> batch[k + 1].task,
                                task_metadata |-> batch[k + 1].task_metadata,
                                error |-> m,
                                status |-> st]

\* a returned batch with a running, an absent and a failed task
C6_Witness ==
    /\ Returned
    /\ capture_traces
    /\ Len(batch) = MaxBatch
    /\ results = <<E_running0, E_failed2>>

(***************************************************************************)
(* C7: a position whose result is completed is given output                *)
(* {"trace": trace, "feedback": feedback} and score s, where (s, feedback) *)
(* is what the scoring engine makes of the entry point's answer for that   *)
(* position; for a batch of three with results completed, completed,       *)
(* failed and an entry point returning the constant 0.9, evaluate returns  *)
(* scores [0.9, 0.9, 0.0] and outputs[2] is the failure reason.            *)
(***************************************************************************)
EngineScore(b) ==
    CASE b.kind = "float" -> b.v
      [] b.kind = "pair" -> b.v
      [] b.kind = "raise" -> 0

EngineFeedback(b) ==
    CASE b.kind = "float" -> ""
      [] b.kind = "pair" -> b.text
      [] b.kind = "raise" -> "Eval error: " \o b.text

ConstantPointNine ==
    \A k \in DOMAIN evalBeh : evalBeh[k] = Beh("float", 90, "")

TwoCompletedOneFailed ==
    /\ batch = <<DataInst(0), DataInst(1), DataInst(2)>>
    /\ results \in Reorderings(<<E_done0, E_done1, E_failed2>>)
    /\ ConstantPointNine

C7_CompletedPositionsScored ==
    /\ Returned => Handled = Positions
    /\ \A k \in Handled :
           IsCompleted(results, k) =>
               LET r == ResultOf(results, k).r
                   b == evalBeh[k + 1]
               IN  /\ outputs[k + 1] =
                          [trace |-> IF Has(r, "trace") THEN r.trace ELSE <<>>,
                           feedback |-> EngineFeedback(b)]
                   /\ scores[k + 1] = EngineScore(b)
    /\ (TwoCompletedOneFailed /\ pc \in {"score", "done", "raised"}) =>
           /\ pc # "raised"
           /\ Returned =>
                  /\ scores = <<90, 90, 0>>
                  /\ outputs[3] = [error |-> "agent crashed"]

\* the scenario of the claim, returned
C7_Witness ==
    /\ Returned
    /\ TwoCompletedOneFailed
    /\ results = <<E_done0, E_done1, E_failed2>>

(***************************************************************************)
(* C8: an entry point that raises for a position never makes evaluate      *)
(* raise: evaluate never ends with an exception at a position whose result *)
(* is completed; the position gets score 0.0 and feedback                  *)
(* "Eval error: <message>"; every other completed position handled so far  *)
(* has the output and score it has when the entry point succeeds for that  *)
(* position, and a call that returns has handled every position.           *)
(***************************************************************************)
C8_ScoringFailureIsContained ==
    /\ pc = "raised" => (i < Len(batch) /\ ~IsCompleted(results, i))
    /\ Returned => i = Len(batch)
    /\ pc \in {"score", "done", "raised"} =>
           \A k \in 0..(i - 1) :
               (IsCompleted(results, k) /\ evalBeh[k + 1].kind = "raise") =>
                   /\ scores[k + 1] = 0
                   /\ outputs[k + 1].feedback =
                          "Eval error: " \o evalBeh[k + 1].text
                   /\ \A j \in 0..(i - 1) :
                          (j # k /\ IsCompleted(results, j)) =>
                              \A b2 \in { b \in Behaviours : b.kind # "raise" } :
                                  LET beh2 == [evalBeh EXCEPT ![k + 1] = b2]
                                      s == Step(batch[j + 1], results, j,
                                                beh2[j + 1])
                                  IN  /\ outputs[j + 1] = s.output
                                      /\ scores[j + 1] = s.score

\* the entry point raised for the first of two completed positions
C8_Witness ==
    /\ Returned
    /\ results = <<E_done1, E_done0>>
    /\ Len(batch) = Len(results)
    /\ evalBeh[1].kind = "raise"
    /\ evalBeh[2].kind = "float"
    /\ scores = <<0, 90>>

(***************************************************************************)
(* Vocabulary of the polling properties.                                   *)
(***************************************************************************)
\* status requests issued after the polling loop was left on the deadline
LateGets ==
    { k \in DOMAIN requests :
          requests[k].method = "GET" /\ requests[k].afterDeadline }

PollReturned == pc \in {"polled", "score", "done"}

DeadlineElapsed == ~(clock - start_time < PollTimeout)

HasCompletedResult(rs, k) ==
    \E a \in DOMAIN rs :
        /\ Has(rs[a], "task_id") /\ rs[a].task_id = TaskId(k)
        /\ Has(rs[a], "status") /\ rs[a].status = "completed"

(***************************************************************************)
(* C9: when the deadline elapses before a terminal status was seen, the    *)
(* polling loop goes on to the final fetch without raising, a final fetch  *)
(* that is answered makes poll return the results of that answer, and a    *)
(* call that then returns yields a full-length batch in which every        *)
(* position without a completed result has score 0.0 and an error output.  *)
(***************************************************************************)
C9_TimeoutReturnsPartialResults ==
    /\ [][(pc = "poll_check" /\ DeadlineElapsed)
             => (pc' = "final_get" /\ err' = NoErr)]_vars
    /\ [][(pc = "final_get" /\ response' = "ok")
             => (pc' = "polled" /\ err' = NoErr
                 /\ results' = Get(data', "results", <<>>))]_vars
    /\ []((timedOut /\ Returned) =>
             /\ results = Get(data, "results", <<>>)
             /\ Len(outputs) = Len(batch)
             /\ Len(scores) = Len(batch)
             /\ \A k \in Positions :
                    ~HasCompletedResult(results, k) =>
                        /\ scores[k + 1] = 0
                        /\ DOMAIN outputs[k + 1] = {"error"})

\* the batch was still pending at the deadline with one task completed
C9_Witness ==
    /\ timedOut
    /\ Returned
    /\ Get(data, "status", PyNone) = "pending"
    /\ results = <<E_done0>>
    /\ Len(batch) = MaxBatch
    /\ scores[1] = 90
    /\ scores[MaxBatch] = 0

(***************************************************************************)
(* C10: once the deadline has elapsed with poll still waiting, poll issues *)
(* no further status request inside the loop and exactly one after it; it  *)
(* returns the result list of that response whatever status it reports     *)
(* (the empty list when the response has no results), never goes back to   *)
(* waiting and issues no request after that one.                           *)
(***************************************************************************)
C10_OneFinalFetch ==
    /\ [](/\ Cardinality(LateGets) <= 1
          /\ \A k \in DOMAIN requests :
                 requests[k].afterDeadline =>
                     /\ requests[k].method = "GET"
                     /\ requests[k].batch_id = batch_id)
    /\ []((DeadlineElapsed /\ pc \in {"poll_sleep", "poll_check", "final_get"})
             => LateGets = {})
    /\ [][(DeadlineElapsed /\ pc \in {"poll_sleep", "poll_check"})
             => pc' \in {"poll_check", "final_get"}]_vars
    /\ [](timedOut =>
             /\ pc \in {"final_get", "polled", "score", "done", "raised"}
             /\ Cardinality(LateGets) = IF pc = "final_get" THEN 0 ELSE 1
             /\ PollReturned =>
                    results = IF Has(data, "results") THEN data.results
                              ELSE <<>>)
    /\ [][(pc = "final_get" /\ response' = "ok") => pc' = "polled"]_vars

\* the final fetch reported a pending batch without a result list
C10_Witness ==
    /\ timedOut
    /\ Returned
    /\ data = Body({"status"}, "pending", <<>>)
    /\ results = <<>>
    /\ Len(batch) = MaxBatch

(***************************************************************************)
(* Vocabulary of the request-failure properties.                           *)
(***************************************************************************)
\* no position has been scored and nothing was emitted
NothingScored == outputs = <<>> /\ scores = <<>> /\ i = 0

StatusRequests == { k \in DOMAIN requests : requests[k].method = "GET" }

(***************************************************************************)
(* C11: a submit request that suffers a transport failure, a request       *)
(* timeout or a non-2xx response ends evaluate with RuntimeError: no       *)
(* status request is or will be issued, no position is scored and no       *)
(* EvaluationBatch is returned.                                            *)
(***************************************************************************)
SubmitFailed == Len(requests) = 1 /\ response \in Failures

C11_SubmitFailureIsFatal ==
    /\ [][(pc = "start" /\ response' \in Failures)
             => (pc' = "raised" /\ err' = RequestError(response'))]_vars
    /\ [](SubmitFailed =>
             /\ pc = "raised"
             /\ err.type = "RuntimeError"
             /\ requests[1].method = "POST"
             /\ StatusRequests = {}
             /\ NothingScored
             /\ ~Returned)
    /\ [][SubmitFailed => (requests' = requests /\ pc' = pc)]_vars

\* the submission of a batch of three timed out
C11_Witness ==
    /\ SubmitFailed
    /\ response = "timeout"
    /\ err = [type |-> "RuntimeError", msg |-> "API request timed out"]
    /\ Len(batch) = MaxBatch

(***************************************************************************)
(* C12: a status request that suffers a transport failure, a request       *)
(* timeout or a non-2xx response ends evaluate with RuntimeError: it is    *)
(* the last request of the call, whether it was issued inside the polling  *)
(* loop or after the deadline, and no position is scored.                  *)
(***************************************************************************)
StatusRequestFailed == Len(requests) >= 2 /\ response \in Failures

C12_PollFailureIsFatal ==
    /\ [][(pc \in {"poll_get", "final_get"} /\ response' \in Failures)
             => (pc' = "raised" /\ err' = RequestError(response'))]_vars
    /\ [](StatusRequestFailed =>
             /\ pc = "raised"
             /\ err = RequestError(response)
             /\ requests[Len(requests)].method = "GET"
             /\ NothingScored
             /\ ~Returned)
    /\ [][StatusRequestFailed
             => (requests' = requests /\ clock' = clock /\ pc' = pc)]_vars

\* the second status request inside the loop got a non-2xx response
C12_Witness ==
    /\ StatusRequestFailed
    /\ response = "http_status"
    /\ Len(requests) = 3
    /\ ~timedOut
    /\ Len(batch) = MaxBatch

(***************************************************************************)
(* C13: the first status request is sent when polling starts and every     *)
(* later one exactly one poll interval after the previous response; poll   *)
(* goes on waiting only on a response whose status is not completed,       *)
(* partial or failed, and at the first response with one of these three    *)
(* it returns that response's result list at once, with no further request *)
(* and no further sleep.                                                   *)
(***************************************************************************)
StatusOf(body) == Get(body, "status", PyNone)

StopsPolling(st) == st = "completed" \/ st = "partial" \/ st = "failed"

C13_PollsUntilTerminal ==
    /\ [](\A k \in StatusRequests :
             /\ requests[k].batch_id = batch_id
             /\ requests[k].sent =
                    IF k - 1 \in StatusRequests
                    THEN requests[k - 1].answered + PollInterval
                    ELSE start_time)
    /\ []((pc \in {"poll_check", "poll_get", "poll_sleep", "final_get"}
            /\ data # NoBody) => ~StopsPolling(StatusOf(data)))
    /\ [][(pc = "poll_get" /\ response' = "ok")
             => IF StopsPolling(StatusOf(data'))
                THEN pc' = "polled" /\ results' = Get(data', "results", <<>>)
                ELSE pc' = "poll_sleep"]_vars
    /\ [][pc = "poll_sleep"
             => (pc' = "poll_check" /\ clock' = clock + PollInterval)]_vars
    /\ [][(pc = "poll_check" /\ ~DeadlineElapsed) => pc' = "poll_get"]_vars
    /\ []((PollReturned /\ ~timedOut) =>
             /\ StopsPolling(StatusOf(data))
             /\ results = Get(data, "results", <<>>)
             /\ ~requests[Len(requests)].afterDeadline
             /\ clock = requests[Len(requests)].answered)
    /\ [][PollReturned => (requests' = requests /\ clock' = clock)]_vars

\* the batch was pending at the first request and partial at the second
C13_Witness ==
    /\ Returned
    /\ ~timedOut
    /\ Cardinality(StatusRequests) = 2
    /\ StatusOf(data) = "partial"
    /\ results = <<E_done0>>
    /\ Len(batch) = MaxBatch
    /\ scores = <<90, 0, 0>>

(***************************************************************************)
(* C14: the engine makes the same kind of (score, feedback) tuple of both  *)
(* accepted return shapes: a bare number v gives score v and feedback "",  *)
(* a pair (v, text) gives score v and feedback text; 0.75 gives 0.75 and   *)
(* "", (0.75, "good") gives 0.75 and "good".                               *)
(***************************************************************************)
C14_BothShapesNormalized ==
    /\ \A b \in ReturnValues :
           /\ b.kind = "float" =>
                  RunEval(b) = [raised |-> FALSE, score |-> b.v, feedback |-> ""]
           /\ b.kind = "pair" =>
                  RunEval(b) =
                      [raised |-> FALSE, score |-> b.v, feedback |-> b.text]
    /\ Returned => Handled = Positions
    /\ \A k \in Handled :
           LET b == evalBeh[k + 1]
           IN  /\ b.kind = "float" =>
                      /\ scores[k + 1] = b.v
                      /\ outputs[k + 1].feedback = ""
               /\ b.kind = "pair" =>
                      /\ scores[k + 1] = b.v
                      /\ outputs[k + 1].feedback = b.text
               /\ b = Beh("float", 75, "") =>
                      scores[k + 1] = 75 /\ outputs[k + 1].feedback = ""
               /\ b = Beh("pair", 75, "good") =>
                      scores[k + 1] = 75 /\ outputs[k + 1].feedback = "good"
               /\ (capture_traces /\ b.kind \in {"float", "pair"}) =>
                      /\ trajectories.items[k + 1].score = scores[k + 1]
                      /\ trajectories.items[k + 1].feedback =
                             outputs[k + 1].feedback

\* the entry point returned the pair (0.75, "good")
C14_Witness ==
    /\ Returned
    /\ evalBeh[1] = Beh("pair", 75, "good")
    /\ scores = <<75>>
    /\ outputs[1] = [trace |-> <<"s1">>, feedback |-> "good"]

(***************************************************************************)
(* C15: constructing the adapter with scoring code that does not define    *)
(* eval_function raises ValueError from the constructor; no adapter object *)
(* comes to exist, so evaluate is never called, no request is ever sent    *)
(* and nothing is scored.                                                  *)
(***************************************************************************)
C15_MissingEntryPointFailsConstruction ==
    /\ [][(adapter.state = "none" /\ adapter'.eval_code = "lacks")
             => (adapter'.state = "failed"
                 /\ adapter'.escaped = "ValueError")]_vars
    /\ [](adapter.eval_code = "lacks" =>
             /\ adapter.state = "failed"
             /\ adapter.calls = 0
             /\ adapter.scope = "none"
             /\ pc = "idle"
             /\ requests = <<>>
             /\ NothingScored)

\* the constructor has raised ValueError
C15_Witness ==
    /\ adapter.eval_code = "lacks"
    /\ adapter.state = "failed"
    /\ adapter.escaped = "ValueError"
    /\ requests = <<>>

(***************************************************************************)
(* Vocabulary of the reflective-dataset properties.                        *)
(***************************************************************************)
Reflected == pc = "reflected"

Requested == { components_to_update[j] : j \in DOMAIN components_to_update }

\* the positions (1-based) whose score is strictly less than 1.0
Underperforming == { k \in 1..Len(scores) : scores[k] < 100 }

\* the n-th of these positions in position order
NthUnderperforming(n) ==
    CHOOSE k \in Underperforming :
        Cardinality({ j \in Underperforming : j < k }) = n - 1

(***************************************************************************)
(* C16: make_reflective_dataset returns a mapping whose keys are exactly   *)
(* the requested components; the list of each component holds one record   *)
(* for each position whose score is strictly less than 1.0, in position    *)
(* order, and none for a position whose score is exactly 1.0.              *)
(***************************************************************************)
C16_OneRecordPerUnderperformingPosition ==
    Reflected =>
        LET d == reflective_data.items
        IN  /\ ~reflective_data.isNone
            /\ DOMAIN d = Requested
            /\ \A c \in Requested :
                   /\ Len(d[c]) = Cardinality(Underperforming)
                   /\ \A n \in 1..Len(d[c]) :
                          /\ d[c][n].output = outputs[NthUnderperforming(n)]
                          /\ d[c][n].score = scores[NthUnderperforming(n)]
                          /\ d[c][n].score # 100
                          /\ capture_traces =>
                                 d[c][n].task =
                                     batch[NthUnderperforming(n)].task

\* three positions scored 1.0, 0.9 and 0.0, two components requested
C16_Witness ==
    /\ Reflected
    /\ capture_traces
    /\ scores = <<100, 90, 0>>
    /\ components_to_update = <<"tools", "system_prompt">>
    /\ Len(reflective_data.items["tools"]) = 2
    /\ reflective_data.items["tools"][1].score = 90

(***************************************************************************)
(* C17: the record emitted for position i and component c carries the task *)
(* and task_metadata of position i's trajectory (both empty when no        *)
(* trajectories were captured), outputs[i], scores[i], the candidate's     *)
(* text for c (empty when the candidate has none) and the feedback text of *)
(* outputs[i] (empty when the output has none, as an error output).        *)
(***************************************************************************)
C17_RecordContents ==
    Reflected =>
        \A c \in DOMAIN reflective_data.items :
            \A n \in 1..Len(reflective_data.items[c]) :
                LET rec == reflective_data.items[c][n]
                    k == NthUnderperforming(n)
                IN  /\ DOMAIN rec = {"task", "task_metadata", "output", "score",
                                     "current_text", "feedback"}
                    /\ IF capture_traces
                       THEN /\ rec.task = trajectories.items[k].task
                            /\ rec.task_metadata =
                                   trajectories.items[k].task_metadata
                       ELSE /\ rec.task = EmptyDict
                            /\ rec.task_metadata = EmptyDict
                    /\ rec.output = outputs[k]
                    /\ rec.score = scores[k]
                    /\ rec.current_text =
                           IF c \in candidate.fields THEN candidate[c] ELSE ""
                    /\ rec.feedback =
                           IF DOMAIN outputs[k] = {"error"} THEN ""
                           ELSE outputs[k].feedback

\* a record for a failed task and one for a task whose scoring raised,
\* without captured trajectories
C17_Witness ==
    /\ Reflected
    /\ ~capture_traces
    /\ results = <<E_done0, E_done1, E_failed2>>
    /\ Len(batch) = MaxBatch
    /\ evalBeh[1].kind = "raise"
    /\ evalBeh[2] = Beh("pair", 90, "close")
    /\ candidate = SeedCandidate
    /\ components_to_update = <<"system_prompt">>
    /\ Len(reflective_data.items["system_prompt"]) = 3
    /\ reflective_data.items["system_prompt"][1].feedback = "Eval error: boom"
    /\ reflective_data.items["system_prompt"][3] =
           [task |-> EmptyDict, task_metadata |-> EmptyDict,
            output |-> [error |-> "agent crashed"], score |-> 0,
            current_text |-> "prompt v1", feedback |-> ""]

(***************************************************************************)
(* C18: when trace capture is requested, the trajectory record of every    *)
(* position evaluate has handled carries the task and the task_metadata of *)
(* the batch element at that position, for scored and for error positions  *)
(* alike, whatever the result list contains; a call that returns has one   *)
(* record for each position.                                               *)
(***************************************************************************)
C18_TrajectoryCarriesTheInput ==
    /\ (capture_traces /\ pc \in {"score", "done", "raised"}) =>
           /\ ~trajectories.isNone
           /\ Len(trajectories.items) = Len(outputs)
           /\ \A k \in Handled :
                  /\ trajectories.items[k + 1].task = batch[k + 1].task
                  /\ trajectories.items[k + 1].task_metadata =
                         batch[k + 1].task_metadata
    /\ Returned => Handled = Positions

\* captured records of a running, a completed and an absent task
C18_Witness ==
    /\ Returned
    /\ capture_traces
    /\ Len(batch) = MaxBatch
    /\ results = <<E_done1, E_running0>>
    /\ trajectories.items[1].status = "running"
    /\ trajectories.items[2].task = DataInst(1).task
    /\ trajectories.items[3].status = "not_found"

(***************************************************************************)
(* C19: an adapter used through a with block keeps its connection open     *)
(* across the evaluate calls made inside the block for as long as close()  *)
(* is not called on it: no step of evaluate touches the connection and     *)
(* every request is sent on an open client; when the block is left,        *)
(* however the calls inside it ended, the connection is closed, and it has *)
(* been released exactly once.                                             *)
(***************************************************************************)
C19_ScopedReleaseExactlyOnce ==
    /\ [](adapter.releases <= 1)
    /\ []((adapter.scope = "in" /\ adapter.closes = 0) =>
             (adapter.client = "open" /\ adapter.releases = 0))
    /\ [](adapter.scope = "left" =>
             (adapter.client = "closed" /\ adapter.releases = 1))
    /\ [][(adapter.scope = "in" /\ adapter'.scope # "in")
             => (adapter'.scope = "left"
                 /\ adapter'.client = "closed"
                 /\ adapter'.releases = 1)]_vars
    /\ [][~BetweenCalls => adapter' = adapter]_vars
    /\ [][Len(requests') > Len(requests) => adapter.client = "open"]_vars

\* the block was left after a call that returned a zero-scored entry and a
\* call that raised; the only release is the one of __exit__
C19_Witness ==
    /\ adapter.scope = "left"
    /\ adapter.outcomes = <<"zero_scored", "raised">>
    /\ adapter.closes = 1
    /\ adapter.releases = 1
    /\ adapter.client = "closed"

(***************************************************************************)
(* C20: releasing the adapter is idempotent and never raises past its      *)
(* caller: after one or more calls of close(), explicit or made on leaving *)
(* the with block, the connection is closed and has been released once,    *)
(* and no such call lets an exception through.                             *)
(***************************************************************************)
C20_ReleaseIdempotentNeverRaises ==
    /\ adapter.closes >= 1 =>
           (adapter.client = "closed" /\ adapter.releases = 1)
    /\ adapter.state = "ready" => adapter.escaped = ""

(***************************************************************************)
(* C21: a call of evaluate that returns has issued exactly one submission  *)
(* request, then one or more status requests, each for the batch id the    *)
(* submission returned, and no other request; no request other than a      *)
(* submission or a status request is ever issued, in particular none when  *)
(* the poll timeout is exceeded.                                           *)
(***************************************************************************)
C21_OneSubmissionThenStatusRequests ==
    /\ \A k \in DOMAIN requests :
           /\ requests[k].method \in {"POST", "GET"}
           /\ requests[k].method = "POST" <=> k = 1
    /\ Returned =>
           /\ Len(requests) >= 2
           /\ requests[1].method = "POST"
           /\ batch_id # ""
           /\ \A k \in 2..Len(requests) :
                  /\ requests[k].method = "GET"
                  /\ requests[k].batch_id = batch_id
    /\ timedOut =>
           \A k \in DOMAIN requests :
               requests[k].afterDeadline => requests[k].method = "GET"

\* a call that returned after two status requests in the loop and the
\* final fetch
C21_Witness ==
    /\ Returned
    /\ timedOut
    /\ Len(requests) = 4
    /\ requests[4].afterDeadline
    /\ Len(batch) = 1

\* C22: evaluate changes neither the candidate mapping nor the batch (its
\* length, its order, the task and the task_metadata of each instance) in
\* any of its steps, so both are as passed in at a normal return, at a return
\* with zero-scored positions and when the call ends in an exception.
C22_InputsUnchanged ==
    [][batch' = batch /\ candidate' = candidate]_vars

C22_Witness ==
    /\ Returned
    /\ Len(batch) = 2
    /\ batch \in Batches
    /\ candidate = SeedCandidate
    /\ scores = <<90, 0>>

\* C23: measured from the end of the submission, evaluate waits at most the
\* poll timeout plus the latency of one request: the clock never passes
\* start_time + PollTimeout + MaxLatency while the call polls or scores.
C23_WaitWithinTimeoutPlusOneLatency ==
    pc \notin {"start", "idle"} =>
        clock - start_time <= PollTimeout + MaxLatency

\* the wait the code does keep to: a status request sent just before the
\* deadline, the sleep after it and the final fetch all run to their end
C23_WaitWithinCodeBound ==
    pc \notin {"start", "idle"} =>
        clock - start_time <=
            (PollTimeout - 1) + MaxLatency + PollInterval + MaxLatency

\* the messages of step k of a trace, and the places <<step, message>> of a
\* trace at which the assistant speaks
MessagesOf(trace, k) == Get(StepOf(trace[k]), "messages_added", <<>>)

AssistantPlaces(trace) ==
    { p \in UNION { {k} \X DOMAIN MessagesOf(trace, k) : k \in DOMAIN trace } :
          /\ Has(MessagesOf(trace, p[1])[p[2]], "role")
          /\ MessagesOf(trace, p[1])[p[2]].role = "assistant" }

Later(p, q) == p[1] > q[1] \/ (p[1] = q[1] /\ p[2] >= q[2])

RECURSIVE Concat(_)
Concat(ts) == IF ts = <<>> THEN "" ELSE Head(ts) \o Concat(Tail(ts))

IsTextBlock(b) == b.isDict /\ Has(b, "type") /\ b.type = "text"

TextsOf(bs) ==
    LET tagged == SelectSeq(bs, IsTextBlock)
    IN  [k \in DOMAIN tagged |->
             IF Has(tagged[k], "text") THEN tagged[k].text ELSE ""]

\* what the final response of a trace is
FinalResponse(trace) ==
    IF AssistantPlaces(trace) = {} THEN ""
    ELSE LET last == CHOOSE p \in AssistantPlaces(trace) :
                         \A q \in AssistantPlaces(trace) : Later(p, q)
             msg == MessagesOf(trace, last[1])[last[2]]
         IN  IF ~Has(msg, "content") THEN ""
             ELSE IF msg.content.isList THEN Concat(TextsOf(msg.content.blocks))
             ELSE IF msg.content.isNone THEN "None"
             ELSE msg.content.str

\* C24: the agent_response handed to the entry point is the content of the
\* last assistant message of the trace, last step first and last message
\* first; a list content gives the texts of its text blocks joined in order,
\* and a trace without assistant message gives the empty string.
C24_ExtractsLastAssistantMessage ==
    \A k \in DOMAIN invocations :
        invocations[k].trace.agent_response =
            FinalResponse(invocations[k].trace.steps)

C24_Witness ==
    /\ Len(invocations) = 1
    /\ invocations[1].trace.steps = <<"s2", "s3", "s4">>
    /\ invocations[1].trace.agent_response = "ab"

\* the call of run_gepa_optimization has ended, by a return or an exception
RunEnded == run.pc \in {"returned", "raised"}

\* C25: run_gepa_optimization never raises: whatever the config (missing
\* fields, scoring code without entry point, items without task, a failing
\* optimizer) it returns a dict with success, with result when success is
\* true and with error and error_type when it is false.
C25_RunnerAlwaysReturnsDict ==
    RunEnded =>
        /\ run.pc = "returned"
        /\ run.escaped = ""
        /\ Has(run.returned, "success")
        /\ run.returned.success => Has(run.returned, "result")
        /\ ~run.returned.success =>
               Has(run.returned, "error") /\ Has(run.returned, "error_type")

\* C26: on every path by which run_gepa_optimization ends after the adapter
\* was constructed, the connection has been released exactly once, and a
\* release that failed was reported as a warning.
C26_RunnerReleasesExactlyOnce ==
    (RunEnded /\ adapter.state = "ready") =>
        /\ adapter.releases = 1
        /\ adapter.client = "closed"
        /\ run.closeFailed => run.warnings >= 1

\* the positions handled so far whose result is completed, and the j-th of
\* them in increasing order
CompletedHandled == { k \in Handled : IsCompleted(results, k) }

NthCompleted(j) ==
    CHOOSE k \in CompletedHandled :
        Cardinality({ h \in CompletedHandled : h < k }) = j - 1

\* C27: the steps of one evaluate call are sequential.  The submission is
\* answered before the first status request is sent; every status request
\* is answered before the first call of the entry point, and none is sent
\* afterwards; the entry point is called in increasing position order, once
\* for each position with a completed result and for no other; the call for
\* position k receives batch[k]'s task and metadata, the trace of the result
\* identified as task_k with the response extracted from it, and None as
\* context.
C27_SequentialSteps ==
    /\ \A k \in DOMAIN requests :
           k >= 2 => /\ requests[1].method = "POST"
                     /\ requests[k].method = "GET"
                     /\ requests[1].answered <= requests[k].sent
                     /\ requests[k - 1].answered <= requests[k].sent
    /\ invocations # <<>> =>
           /\ pc \in {"score", "done", "raised"}
           /\ Len(requests) >= 2
           /\ \A k \in DOMAIN requests : requests[k].answered <= clock
    /\ pc \in {"start", "poll_start", "poll_check", "poll_get", "poll_sleep",
                "final_get", "polled"} => invocations = <<>>
    /\ pc \in {"score", "done"} =>
           /\ Len(invocations) = Cardinality(CompletedHandled)
           /\ \A j \in DOMAIN invocations :
                  LET k == NthCompleted(j)
                      trace == Get(ResultOf(results, k).r, "trace", <<>>)
                  IN  /\ invocations[j].task = batch[k + 1].task
                      /\ invocations[j].task_metadata =
                             batch[k + 1].task_metadata
                      /\ invocations[j].trace.steps = trace
                      /\ invocations[j].trace.agent_response =
                             FinalResponse(trace)
                      /\ invocations[j].ctx = PyNone

C27_Witness ==
    /\ Returned
    /\ Len(batch) = 3
    /\ results = <<E_failed2, E_done1, E_done0>>
    /\ Len(invocations) = 2
    /\ invocations[1].task = DataInst(0).task
    /\ invocations[2].task = DataInst(1).task
    /\ invocations[1].trace.agent_response = "answer 1"
    /\ Len(requests) = 3

\* the state of the poll of one evaluate call
PollPhase ==
    IF timedOut THEN "TimedOut"
    ELSE IF pc = "start" THEN "NotSubmitted"
    ELSE IF pc = "poll_start" THEN "Submitted"
    ELSE IF pc \in {"poll_check", "poll_get", "poll_sleep"} THEN "Polling"
    ELSE IF pc \in {"polled", "score", "done"} THEN "Terminal"
    ELSE "Failed"

PhaseSteps ==
    {<<"NotSubmitted", "Submitted">>, <<"NotSubmitted", "Failed">>,
     <<"Submitted", "Polling">>,
     <<"Polling", "Polling">>, <<"Polling", "Terminal">>,
     <<"Polling", "TimedOut">>, <<"Polling", "Failed">>,
     <<"Terminal", "Terminal">>, <<"Terminal", "Failed">>,
     <<"TimedOut", "TimedOut">>}

PhaseStep == <<PollPhase, PollPhase'>> \in PhaseSteps

NoPollingAfterDeadline ==
    timedOut => pc' \notin {"poll_check", "poll_get", "poll_sleep"}

EvaluateEnded == pc \in {"done", "raised"}

\* C28: with time advancing and every request coming back, every evaluate
\* call ends, also when the platform answers pending for ever; the poll goes
\* from Submitted to Polling and from there to Terminal (on a status that
\* ends the loop) or TimedOut, and never comes back to Polling; once the
\* deadline has elapsed no status request is sent from inside the loop.
C28_EvaluateEnds ==
    /\ <>EvaluateEnded
    /\ [][PhaseStep]_vars
    /\ [][NoPollingAfterDeadline]_vars
    /\ []((PollPhase = "Terminal" /\ pc = "polled") =>
              Get(data, "status", PyNone) \in Terminal)

C28_Witness ==
    /\ Returned
    /\ timedOut
    /\ Get(data, "status", PyNone) = "pending"
    /\ \A k \in DOMAIN requests : k >= 2 => requests[k].sent = requests[k].answered
    /\ Len(requests) = 4

\* C29: when the construction of the adapter fails, because eval_code does
\* not define the entry point or because executing it raises, the client
\* opened during the construction is not left open.
C29_FailedConstructionReleasesClient ==
    adapter.state = "failed" => adapter.client # "open"

\* C30: the only exception that leaves evaluate is RuntimeError: whatever
\* the platform answers, a 2xx submission response without batch_id or a
\* body that is not JSON included, the call ends with RuntimeError or
\* returns an EvaluationBatch with one output and one score per position.
C30_OnlyRuntimeErrorEscapes ==
    /\ pc = "raised" => err.type = "RuntimeError"
    /\ Returned => Len(outputs) = Len(batch) /\ Len(scores) = Len(batch)

\* the identifiers of the positions of the batch
BatchIds == { TaskId(k) : k \in Positions }

\* entry a of rs carries an identifier of no position of the batch
IsForeign(rs, a) == Has(rs[a], "task_id") /\ rs[a].task_id \notin BatchIds

\* entry a of rs repeats the identifier of an earlier entry
IsLaterDuplicate(rs, a) ==
    /\ Has(rs[a], "task_id")
    /\ \E c \in 1..(a - 1) :
           Has(rs[c], "task_id") /\ rs[c].task_id = rs[a].task_id

Without(rs, a) == SubSeq(rs, 1, a - 1) \o SubSeq(rs, a + 1, Len(rs))

\* rs without its foreign entries and its later duplicates
RECURSIVE FirstMatchesFrom(_, _)
FirstMatchesFrom(rs, a) ==
    IF a > Len(rs) THEN <<>>
    ELSE IF IsForeign(rs, a) \/ IsLaterDuplicate(rs, a)
    THEN FirstMatchesFrom(rs, a + 1)
    ELSE <<rs[a]>> \o FirstMatchesFrom(rs, a + 1)

\* the first entry of rs that carries the identifier of position k
FirstFor(rs, k) ==
    rs[CHOOSE a \in DOMAIN rs :
           /\ Has(rs[a], "task_id") /\ rs[a].task_id = TaskId(k)
           /\ ~IsLaterDuplicate(rs, a)]

\* C31: result entries that do not correspond to a unique position have no
\* effect.  A call that returns yields the batch it would yield without any
\* one entry whose identifier is foreign to the batch or repeats an earlier
\* one, and without all of them; a position whose identifier occurs is
\* decided by the first entry that carries it.
C31_OnlyFirstMatchCounts ==
    Returned =>
        /\ \A a \in DOMAIN results :
               (IsForeign(results, a) \/ IsLaterDuplicate(results, a)) =>
                   /\ ~Aborts(Without(results, a))
                   /\ BatchOn(Without(results, a)) = ReturnedBatch
        /\ ~Aborts(FirstMatchesFrom(results, 1))
        /\ BatchOn(FirstMatchesFrom(results, 1)) = ReturnedBatch
        /\ \A k \in Positions :
               ~IsAbsent(results, k) =>
                   BatchOn(<<FirstFor(results, k)>>).scores[k + 1] =
                       scores[k + 1]

C31_Witness ==
    /\ Returned
    /\ Len(batch) = 2
    /\ results = <<E_failed2, E_running0, E_done0>>
    /\ evalBeh[1] = Beh("float", 90, "")
    /\ scores = <<0, 0>>

\* the status of the batch in the status response polling ended on
BatchStatus == Get(data, "status", PyNone)

ScoredNormally(k) ==
    /\ DOMAIN outputs[k + 1] = {"trace", "feedback"}
    /\ scores[k + 1] = Scored(evalBeh[k + 1]).score
    /\ outputs[k + 1].feedback = Scored(evalBeh[k + 1]).feedback

ZeroScored(k) ==
    /\ DOMAIN outputs[k + 1] = {"error"}
    /\ scores[k + 1] = 0

\* C32: once polling has returned, what happens to a position depends on the
\* status of that task's own result only.  Whatever the status of the batch
\* (completed, partial, failed, or pending when the deadline elapsed), a
\* position whose result is completed is scored by the entry point and a
\* position whose result has another status, or is absent, is zero-scored.
C32_TaskStatusDecides ==
    /\ PollReturned =>
           BatchStatus \in IF timedOut THEN Statuses \cup {PyNone}
                           ELSE Terminal
    /\ \A k \in Handled :
           /\ IsCompleted(results, k) => ScoredNormally(k)
           /\ IsNotCompleted(results, k) => ZeroScored(k)
    /\ Returned => Handled = Positions /\ ReturnedBatch = BatchOn(results)

C32_Witness ==
    /\ Returned
    /\ timedOut
    /\ BatchStatus = "pending"
    /\ Len(batch) = 3
    /\ results = <<E_failed2, E_done0>>
    /\ scores = <<90, 0, 0>>
    /\ outputs[3] = [error |-> "agent crashed"]

====
